---- MODULE Spec2Model ----
(***************************************************************************)
(* Miles Ahead: the mileage dashboard (src/components/MilesTracker.tsx).   *)
(*                                                                         *)
(* The model keeps the odometer_logs table, the aggregated readings the    *)
(* component holds, the lease configuration and the clock, and computes    *)
(* the derived statistics the way the component does.                      *)
(*                                                                         *)
(* JavaScript numbers are IEEE-754 binary64.  Odometer values and day      *)
(* counts are integers and exact; every quotient and product the           *)
(* component forms is rounded to 53 significant bits, round-half-even,     *)
(* which the Num* operators below do on arbitrary-precision naturals       *)
(* (TLC's integers are 32 bits wide).  Subnormals, infinities and NaN are  *)
(* outside the value ranges of the model and are not represented; -0 is    *)
(* identified with +0 (no comparison in the component tells them apart).   *)
(*                                                                         *)
(* Time is counted in ticks, TicksPerDay to the day, in UTC; the host's    *)
(* local time zone is UTC.  A DATE column value is a day number.           *)
(***************************************************************************)
EXTENDS Integers, Sequences, FiniteSets, Bags, TLC

(***************************************************************************)
(* Arbitrary-precision naturals: little-endian sequences of limbs below    *)
(* LimbBase, without leading (most significant) zero limbs.                *)
(***************************************************************************)
LimbBase == 2 ^ 15

SetMax(S) == CHOOSE x \in S : \A y \in S : y <= x

BLimb(a, i) == IF i >= 1 /\ i <= Len(a) THEN a[i] ELSE 0

BNorm(a) ==
  LET nz == {i \in 1..Len(a) : a[i] # 0}
  IN IF nz = {} THEN <<>> ELSE SubSeq(a, 1, SetMax(nz))

\* a natural below 2^31
BFromInt(n) ==
  BNorm(<<n % LimbBase, (n \div LimbBase) % LimbBase, n \div (LimbBase * LimbBase)>>)

RECURSIVE BCmpFrom(_, _, _)
BCmpFrom(a, b, i) ==
  IF i = 0 THEN 0
  ELSE IF a[i] < b[i] THEN -1
  ELSE IF a[i] > b[i] THEN 1
  ELSE BCmpFrom(a, b, i - 1)

\* -1, 0, 1 as a is below, equal to or above b
BCmp(a, b) ==
  IF Len(a) < Len(b) THEN -1
  ELSE IF Len(a) > Len(b) THEN 1
  ELSE BCmpFrom(a, b, Len(a))

RECURSIVE BAddFrom(_, _, _, _)
BAddFrom(a, b, i, carry) ==
  IF i > Len(a) /\ i > Len(b)
  THEN (IF carry = 0 THEN <<>> ELSE <<carry>>)
  ELSE IF BLimb(a, i) + BLimb(b, i) + carry >= LimbBase
  THEN <<BLimb(a, i) + BLimb(b, i) + carry - LimbBase>> \o BAddFrom(a, b, i + 1, 1)
  ELSE <<BLimb(a, i) + BLimb(b, i) + carry>> \o BAddFrom(a, b, i + 1, 0)

BAdd(a, b) == BAddFrom(a, b, 1, 0)

RECURSIVE BSubFrom(_, _, _, _)
BSubFrom(a, b, i, borrow) ==
  IF i > Len(a) THEN <<>>
  ELSE IF a[i] - BLimb(b, i) - borrow < 0
  THEN <<a[i] - BLimb(b, i) - borrow + LimbBase>> \o BSubFrom(a, b, i + 1, 1)
  ELSE <<a[i] - BLimb(b, i) - borrow>> \o BSubFrom(a, b, i + 1, 0)

\* a - b for a >= b
BSub(a, b) == BNorm(BSubFrom(a, b, 1, 0))

\* a * LimbBase^q
BShiftLimbs(a, q) ==
  IF a = <<>> \/ q = 0 THEN a
  ELSE [i \in 1..(Len(a) + q) |-> IF i <= q THEN 0 ELSE a[i - q]]

RECURSIVE BMulSmallFrom(_, _, _, _)
BMulSmallFrom(a, k, i, carry) ==
  IF i > Len(a)
  THEN (IF carry = 0 THEN <<>> ELSE <<carry>>)
  ELSE <<(a[i] * k + carry) % LimbBase>>
       \o BMulSmallFrom(a, k, i + 1, (a[i] * k + carry) \div LimbBase)

\* a * k for 0 <= k < LimbBase
BMulSmall(a, k) == IF k = 0 THEN <<>> ELSE BMulSmallFrom(a, k, 1, 0)

\* a * b for b of at most four limbs
BMul(a, b) ==
  BAdd(BAdd(BMulSmall(a, BLimb(b, 1)),
            BShiftLimbs(BMulSmall(a, BLimb(b, 2)), 1)),
       BAdd(BShiftLimbs(BMulSmall(a, BLimb(b, 3)), 2),
            BShiftLimbs(BMulSmall(a, BLimb(b, 4)), 3)))

\* a * 2^k
BShl(a, k) == BShiftLimbs(BMulSmall(a, 2 ^ (k % 15)), k \div 15)

\* floor(a / 2^k)
BShr(a, k) ==
  LET q == k \div 15
      r == k % 15
  IN BNorm([i \in 1..(Len(a) - q) |->
              (a[i + q] \div (2 ^ r)) + (BLimb(a, i + q + 1) % (2 ^ r)) * (2 ^ (15 - r))])

BBitLen(a) ==
  IF a = <<>> THEN 0
  ELSE 15 * (Len(a) - 1) + (CHOOSE n \in 1..15 : a[Len(a)] < 2 ^ n /\ a[Len(a)] >= 2 ^ (n - 1))

BIsOdd(a) == a # <<>> /\ a[1] % 2 = 1

\* One step of long division in base LimbBase: the digit floor(r / d) and the
\* remainder, for r < d * LimbBase and d of four limbs with its top limb at
\* least LimbBase / 2.  The digit estimated from the leading limbs is the true
\* digit or exceeds it by at most 2.
BDivClamp(est) == IF est > LimbBase - 1 THEN LimbBase - 1 ELSE est

BDivDigitOf(r, d, quot) == [quot |-> quot, rem |-> BSub(r, BMulSmall(d, quot))]

BDivDigitFrom(r, d, c0) ==
  BDivDigitOf(r, d, IF BCmp(BMulSmall(d, c0), r) <= 0 THEN c0
                    ELSE IF BCmp(BMulSmall(d, c0 - 1), r) <= 0 THEN c0 - 1
                    ELSE c0 - 2)

BDivDigit(r, d) ==
  BDivDigitFrom(r, d, BDivClamp((BLimb(r, 5) * LimbBase + BLimb(r, 4)) \div d[4]))

\* k further steps of the long division of remainder r by d: their digits,
\* most significant first, and the last remainder
RECURSIVE BDivSteps(_, _, _)
BDivAfter(step, d, k) ==
  LET rest == BDivSteps(step.rem, d, k - 1)
  IN [digits |-> <<step.quot>> \o rest.digits, rem |-> rest.rem]

BDivSteps(r, d, k) ==
  IF k = 0 THEN [digits |-> <<>>, rem |-> r]
  ELSE BDivAfter(BDivDigit(BShiftLimbs(r, 1), d), d, k)

BDivQuot(q0, steps) ==
  [quot    |-> BNorm([i \in 1..5 |-> (<<q0>> \o steps.digits)[6 - i]]),
   inexact |-> steps.rem # <<>>]

BDivScaled(r, d, q0) ==
  BDivQuot(q0, BDivSteps(IF q0 = 1 THEN BSub(r, d) ELSE r, d, 4))

BDivLeading(r, d) == BDivScaled(r, d, IF BCmp(r, d) >= 0 THEN 1 ELSE 0)

\* floor(a * 2^60 / b) for mantissas a, b of 53 bits, and whether the division
\* left a remainder.  Both are scaled by 2^7 so that b fills four limbs.
BDivBits(a, b) == BDivLeading(BShl(a, 7), BShl(b, 7))

(***************************************************************************)
(* Numbers: [sgn, man, exp] stands for (-1)^sgn * man * 2^exp with         *)
(* 2^52 <= man < 2^53, or zero (man = <<>>).                               *)
(***************************************************************************)
MantBits == 53

NumZero == [sgn |-> 0, man |-> <<>>, exp |-> 0]

\* The number nearest to (-1)^s * (n + t) * 2^e, where t is 0 or, when
\* sticky, some value strictly between 0 and 1; ties go to the even mantissa.
\* n has len bits; sh of them are dropped, leaving q.
NumRoundCarry(s, q1, e, sh) ==
  IF BBitLen(q1) > MantBits
  THEN [sgn |-> s, man |-> BShr(q1, 1), exp |-> e + sh + 1]
  ELSE [sgn |-> s, man |-> q1, exp |-> e + sh]

NumRoundsUp(half, q, sticky) ==
  \/ half > 0
  \/ half = 0 /\ (sticky \/ BIsOdd(q))

NumRoundHalf(n, q, sh) ==
  BCmp(BMulSmall(BSub(n, BShl(q, sh)), 2), BShl(<<1>>, sh))

NumRoundQuot(s, n, e, sticky, sh, q) ==
  NumRoundCarry(s, IF NumRoundsUp(NumRoundHalf(n, q, sh), q, sticky)
                   THEN BAdd(q, <<1>>) ELSE q, e, sh)

NumRoundLen(s, n, e, sticky, len) ==
  IF n = <<>> THEN NumZero
  ELSE IF len <= MantBits
  THEN [sgn |-> s, man |-> BShl(n, MantBits - len), exp |-> e - (MantBits - len)]
  ELSE NumRoundQuot(s, n, e, sticky, len - MantBits, BShr(n, len - MantBits))

NumRound(s, n, e, sticky) == NumRoundLen(s, n, e, sticky, BBitLen(n))

\* An integer as a number (exact below 2^53).
NumInt(i) ==
  NumRound(IF i < 0 THEN 1 ELSE 0, BFromInt(IF i < 0 THEN -i ELSE i), 0, FALSE)

NumIsZero(x) == x.man = <<>>

NumNeg(x) == IF NumIsZero(x) THEN x ELSE [x EXCEPT !.sgn = 1 - x.sgn]

\* -1, 0, 1 as |x| is below, equal to or above |y| (both non-zero)
NumCmpAbs(x, y) ==
  IF x.exp < y.exp THEN -1
  ELSE IF x.exp > y.exp THEN 1
  ELSE BCmp(x.man, y.man)

NumCmp(x, y) ==
  IF NumIsZero(x) /\ NumIsZero(y) THEN 0
  ELSE IF NumIsZero(x) THEN (IF y.sgn = 0 THEN -1 ELSE 1)
  ELSE IF NumIsZero(y) THEN (IF x.sgn = 0 THEN 1 ELSE -1)
  ELSE IF x.sgn # y.sgn THEN (IF x.sgn = 0 THEN 1 ELSE -1)
  ELSE IF x.sgn = 0 THEN NumCmpAbs(x, y) ELSE NumCmpAbs(y, x)

NumLe(x, y) == NumCmp(x, y) <= 0
NumLt(x, y) == NumCmp(x, y) < 0
NumEq(x, y) == NumCmp(x, y) = 0

NumMul(x, y) ==
  IF NumIsZero(x) \/ NumIsZero(y) THEN NumZero
  ELSE NumRound((x.sgn + y.sgn) % 2, BMul(x.man, y.man), x.exp + y.exp, FALSE)

NumMinExp(x, y) == IF x.exp < y.exp THEN x.exp ELSE y.exp

NumSigned(m, e) == IF m.man = <<>> THEN NumZero ELSE NumRound(m.sgn, m.man, e, FALSE)

\* (-1)^xs * xm + (-1)^ys * ym, as a sign and a magnitude
NumSum(xs, xm, ys, ym, c) ==
  IF xs = ys THEN [sgn |-> xs, man |-> BAdd(xm, ym)]
  ELSE IF c = 0 THEN [sgn |-> 0, man |-> <<>>]
  ELSE IF c > 0 THEN [sgn |-> xs, man |-> BSub(xm, ym)]
  ELSE [sgn |-> ys, man |-> BSub(ym, xm)]

\* the sum of two non-zero numbers with mantissas aligned at exponent e
NumAddAligned(xs, xm, ys, ym, e) == NumSigned(NumSum(xs, xm, ys, ym, BCmp(xm, ym)), e)

NumAdd(x, y) ==
  IF NumIsZero(x) THEN y
  ELSE IF NumIsZero(y) THEN x
  ELSE NumAddAligned(x.sgn, BShl(x.man, x.exp - NumMinExp(x, y)),
                     y.sgn, BShl(y.man, y.exp - NumMinExp(x, y)), NumMinExp(x, y))

NumSub(x, y) == NumAdd(x, NumNeg(y))

\* x / y for y # 0: 60 quotient bits and the sticky bit, then rounded
NumDiv(x, y) ==
  IF NumIsZero(x) THEN NumZero
  ELSE LET d == BDivBits(x.man, y.man)
       IN NumRound((x.sgn + y.sgn) % 2, d.quot, x.exp - y.exp - 60, d.inexact)

NumMax(x, y) == IF NumLt(x, y) THEN y ELSE x
NumMin(x, y) == IF NumLt(y, x) THEN y ELSE x

(***************************************************************************)
(* Bounds of the model and the inputs drawn by its actions.                *)
(***************************************************************************)
TicksPerDay == 2
MaxTicks == 2
MaxRows == 3
MaxWeeklyRows == 5

\* Day numbers count from the default lease start, 2024-05-12, a Sunday.
EnvLeaseStart == 0
EnvAnnualAllowance == 12000

\* null, where a record is expected
NULL == [null |-> TRUE]

\* Readings the user may enter (date, odometer value): an old one, a high one
\* that later ones fall below, one exactly 30 days before the day the clock
\* starts on (day 100), and three on that day.
Entries ==
  { [reading_date |-> 5,   reading_miles |-> 100],
    [reading_date |-> 50,  reading_miles |-> 1500],
    [reading_date |-> 70,  reading_miles |-> 1000],
    [reading_date |-> 85,  reading_miles |-> 1010],
    [reading_date |-> 100, reading_miles |-> 1021],
    [reading_date |-> 100, reading_miles |-> 1022],
    [reading_date |-> 100, reading_miles |-> 1900] }

\* Readings of consecutive weeks: weekly miles (80,) 100, 120, 140, 160 on one line,
\* or 160, 100, 40 on a falling one; day 80 is a Wednesday.  The reading of day 94
\* is below the one of day 91.
WeeklyEntries ==
  { [reading_date |-> 56, reading_miles |-> 920],
    [reading_date |-> 63, reading_miles |-> 1000],
    [reading_date |-> 70, reading_miles |-> 1100],
    [reading_date |-> 70, reading_miles |-> 1160],
    [reading_date |-> 77, reading_miles |-> 1220],
    [reading_date |-> 80, reading_miles |-> 1260],
    [reading_date |-> 84, reading_miles |-> 1360],
    [reading_date |-> 84, reading_miles |-> 1300],
    [reading_date |-> 91, reading_miles |-> 1520],
    [reading_date |-> 94, reading_miles |-> 1400] }

\* Rows the vehicles table may hold for the selected vehicle; a nullable
\* column is <<>> (null) or <<value>>.
VehicleRows ==
  { [lease_start |-> <<99>>,  annual_allowance |-> <<7305>>,  mpg |-> <<25>>],
    [lease_start |-> <<73>>,  annual_allowance |-> <<12000>>, mpg |-> <<>>],
    [lease_start |-> <<200>>, annual_allowance |-> <<>>,      mpg |-> <<0>>] }

(***************************************************************************)
(* Dates and the clock (date-fns, Date).                                   *)
(***************************************************************************)
\* new Date('yyyy-MM-dd'), parseISO('yyyy-MM-dd'): midnight of that day
DateOf(day) == day * TicksPerDay

\* subDays(t, n)
subDays(t, n) == t - n * TicksPerDay

\* differenceInDays(a, b): full days from b to a, truncated towards zero
differenceInDays(a, b) ==
  IF a >= b THEN (a - b) \div TicksPerDay ELSE -((b - a) \div TicksPerDay)

\* addDays(t, n)
addDays(t, n) == t + n * TicksPerDay

\* Variant: the week starts on the Monday.
startOfWeekMonday(day) == DateOf(day - ((day + 6) % 7))

\* startOfWeek(parseISO(day), { weekStartsOn: 0 }): midnight of the Sunday
startOfWeek(day) == DateOf(day - (day % 7))

\* format(t, 'yyyy-MM-dd') as a day number
DayKey(t) == t \div TicksPerDay

(***************************************************************************)
(* loadReadings: the aggregation of the rows returned by the query.        *)
(***************************************************************************)
RECURSIVE perDayFrom(_, _, _)
perDayFrom(data, i, perDay) ==
  IF i > Len(data) THEN perDay
  ELSE LET d   == data[i].reading_date
           val == data[i].reading_miles
       IN IF d \notin DOMAIN perDay
          THEN perDayFrom(data, i + 1,
                 [x \in DOMAIN perDay \cup {d} |->
                    IF x = d THEN [min |-> val, max |-> val] ELSE perDay[x]])
          ELSE perDayFrom(data, i + 1,
                 [perDay EXCEPT ![d] =
                    [min |-> IF val < @.min THEN val ELSE @.min,
                     max |-> IF val > @.max THEN val ELSE @.max]])

perDayOf(data) == perDayFrom(data, 1, <<>>)

SetMin(S) == CHOOSE x \in S : \A y \in S : x <= y

\* Object.keys(perDay).sort(by date): the distinct dates, ascending
RECURSIVE sortedDatesOf(_)
sortedDatesOf(S) ==
  IF S = {} THEN <<>> ELSE <<SetMin(S)>> \o sortedDatesOf(S \ {SetMin(S)})

\* Variant: the delta to the previous day is not clamped at 0.
dailyMilesUnclamped(perDay, sortedDates, index) ==
  IF index > 1
  THEN perDay[sortedDates[index]].max - perDay[sortedDates[index - 1]].max
  ELSE 0

\* Variant: the delta is the spread of the day's own readings (max - min).
dailyMilesWithinDay(perDay, sortedDates, index) ==
  perDay[sortedDates[index]].max - perDay[sortedDates[index]].min

dailyMilesOf(perDay, sortedDates, index) ==
  LET dailyMiles == IF index > 1
                    THEN perDay[sortedDates[index]].max - perDay[sortedDates[index - 1]].max
                    ELSE 0
  IN IF dailyMiles > 0 THEN dailyMiles ELSE 0

\* Variant: the first (smallest) value of the day stands for the day.
endOfDayMilesMin(perDay, date) == perDay[date].min

endOfDayMiles(perDay, date) == perDay[date].max

aggregate(data) ==
  LET perDay      == perDayOf(data)
      sortedDates == sortedDatesOf(DOMAIN perDay)
  IN [index \in 1..Len(sortedDates) |->
        [reading_date  |-> sortedDates[index],
         reading_miles |-> endOfDayMiles(perDay, sortedDates[index]),
         daily_miles   |-> dailyMilesOf(perDay, sortedDates, index)]]

(***************************************************************************)
(* The state of the dashboard and of the tables it reads.                  *)
(***************************************************************************)
VARIABLES
  odometer_logs,   \* the odometer_logs table: a bag of rows
  vehicles,        \* the vehicles table: the row of each vehicle id, or NULL
  readings,        \* the component's readings state (the aggregated series)
  loading,         \* the component's loading state
  vehicleConfig,   \* the component's lease configuration
  configRequest,   \* the vehicle-config queries in flight: a set of vehicle ids
  now,             \* the clock
  vehicleId,       \* the component's selected vehicle
  readingLoads,    \* the loadReadings queries in flight: a bag of vehicle ids
  weekPage,        \* the component's weekPage state: the page of the weekly trend
  mpg,             \* the component's mpg state, as a number
  mpgRequest,      \* the loadVehicle queries in flight: a set of vehicle ids
  trip_events,     \* the trip_events table: a set of rows
  tripEvents,      \* the component's tripEvents state
  tripLoads,       \* the loadTripEvents queries in flight: a bag of vehicle ids
  newTrip,         \* the component's trip form
  alertMessage,    \* the text of the last alert shown, or NoAlert
  stubResults,     \* what the operations issued on the unconfigured client ended with
  gas_prices,      \* the gas_prices table: the samples in insertion order
  stationId,       \* the component's station id
  lookups,         \* the loadGasPrice calls, each with its position and locals
  gasPrice,        \* the component's current price: <<>> (null) or <<cents>>
  priceHistory,    \* the component's price history
  gasStats,        \* the component's fuel spend and forecast figures
  fetchCalls,      \* the number of calls of the price-fetch endpoint so far
  isOpen,          \* the add-reading modal's isOpen state
  isSubmitting,    \* the add-reading modal's isSubmitting state
  newReading,      \* the add-reading modal's form
  insertRequest,   \* the modal's insert in flight: <<>> or <<the reading passed>>
  alertsShown      \* the alerts the modal's last submit has shown, in order

readingVars == <<odometer_logs, readings, loading, vehicleId, readingLoads, weekPage>>
configVars == <<vehicles, vehicleConfig, configRequest, mpg, mpgRequest>>
tripVars == <<trip_events, tripEvents, tripLoads, newTrip>>
gasVars == <<gas_prices, stationId, lookups, gasPrice, priceHistory, fetchCalls>>
modalVars == <<isOpen, isSubmitting, newReading, insertRequest, alertsShown>>

vars == <<readingVars, configVars, tripVars, gasVars, modalVars, gasStats, alertMessage,
          now, stubResults>>

(***************************************************************************)
(* calculateBlendedPace                                                    *)
(***************************************************************************)
\* [...rs].sort(by date), a stable sort
RECURSIVE sortReadings(_)
sortReadings(rs) ==
  IF rs = <<>> THEN <<>>
  ELSE LET m == SetMin({rs[i].reading_date : i \in DOMAIN rs})
           k == SetMin({i \in DOMAIN rs : rs[i].reading_date = m})
       IN <<rs[k]>> \o sortReadings(SubSeq(rs, 1, k - 1) \o SubSeq(rs, k + 1, Len(rs)))

\* sortedReadings.filter(r => new Date(r.reading_date) >= since)
windowReadings(rs, since) == SelectSeq(rs, LAMBDA r : DateOf(r.reading_date) >= since)

\* the pace between the first and the last reading of a series
paceOf(rs) ==
  LET start == rs[1]
      end   == rs[Len(rs)]
      miles == end.reading_miles - start.reading_miles
      days  == differenceInDays(DateOf(end.reading_date), DateOf(start.reading_date))
  IN IF days > 0 THEN NumDiv(NumInt(miles), NumInt(days)) ELSE NumZero

\* the literals 0.5, 0.3 and 0.2
WeightThirty == NumDiv(NumInt(1), NumInt(2))
WeightNinety == NumDiv(NumInt(3), NumInt(10))
WeightLifetime == NumDiv(NumInt(1), NumInt(5))

\* Variant: one reading is enough for a pace.
tooFewReadingsOne(rs) == Len(rs) < 1

tooFewReadings(rs) == Len(rs) < 2

sortedReadings == sortReadings(readings)
thirtyDayReadings == windowReadings(sortedReadings, subDays(now, 30))
\* Variant: the longer window reaches back 20 days only.
ninetyDayReadingsShort == windowReadings(sortedReadings, subDays(now, 20))

ninetyDayReadings == windowReadings(sortedReadings, subDays(now, 90))

thirtyDayPace == IF Len(thirtyDayReadings) >= 2 THEN paceOf(thirtyDayReadings) ELSE NumZero
ninetyDayPace == IF Len(ninetyDayReadings) >= 2 THEN paceOf(ninetyDayReadings) ELSE NumZero
lifetimePace == paceOf(sortedReadings)

\* Variant: every window keeps its weight, however few entries it holds.
weightsAlwaysFull ==
  [thirty |-> WeightThirty, ninety |-> WeightNinety, lifetime |-> WeightLifetime]

weights ==
  [thirty   |-> IF Len(thirtyDayReadings) >= 2 THEN WeightThirty ELSE NumZero,
   ninety   |-> IF Len(ninetyDayReadings) >= 2 THEN WeightNinety ELSE NumZero,
   lifetime |-> WeightLifetime]

\* Variant: the lifetime term is left out of the weighted sum.
blendOfNoLifetime(p, w) ==
  LET totalWeight == NumAdd(NumAdd(w.thirty, w.ninety), w.lifetime)
  IN IF NumIsZero(totalWeight) THEN NULL
     ELSE [p EXCEPT !.blendedPace =
             NumDiv(NumAdd(NumMul(p.thirtyDayPace, w.thirty),
                           NumMul(p.ninetyDayPace, w.ninety)),
                    totalWeight)]

blendOf(p, w) ==
  LET totalWeight == NumAdd(NumAdd(w.thirty, w.ninety), w.lifetime)
  IN IF NumIsZero(totalWeight) THEN NULL
     ELSE [p EXCEPT !.blendedPace =
             NumDiv(NumAdd(NumAdd(NumMul(p.thirtyDayPace, w.thirty),
                                  NumMul(p.ninetyDayPace, w.ninety)),
                           NumMul(p.lifetimePace, w.lifetime)),
                    totalWeight)]

calculateBlendedPace ==
  IF tooFewReadings(readings) THEN NULL
  ELSE blendOf([thirtyDayPace  |-> thirtyDayPace,
                ninetyDayPace  |-> ninetyDayPace,
                lifetimePace   |-> lifetimePace,
                blendedPace    |-> NumZero], weights)

(***************************************************************************)
(* getAlertLevel and calculateStats                                        *)
(***************************************************************************)
\* the literals 0.05, 0.10 and 365.25
FivePercent == NumDiv(NumInt(1), NumInt(20))
TenPercent == NumDiv(NumInt(1), NumInt(10))
DaysPerYear == NumDiv(NumInt(1461), NumInt(4))

\* Variant: a balance of exactly zero is no longer green.
getAlertLevelStrictGreen(overUnderPct) ==
  IF NumLt(overUnderPct, NumZero) THEN "green"
  ELSE IF NumLe(overUnderPct, FivePercent) THEN "yellow"
  ELSE IF NumLe(overUnderPct, TenPercent) THEN "orange"
  ELSE "red"

\* Variant: the upper edge of each tier is exclusive.
getAlertLevelExclusive(overUnderPct) ==
  IF NumLe(overUnderPct, NumZero) THEN "green"
  ELSE IF NumLt(overUnderPct, FivePercent) THEN "yellow"
  ELSE IF NumLt(overUnderPct, TenPercent) THEN "orange"
  ELSE "red"

getAlertLevel(overUnderPct) ==
  IF NumLe(overUnderPct, NumZero) THEN "green"
  ELSE IF NumLe(overUnderPct, FivePercent) THEN "yellow"
  ELSE IF NumLe(overUnderPct, TenPercent) THEN "orange"
  ELSE "red"

todaysMilesOf(rs, t) ==
  LET found == {i \in DOMAIN rs : rs[i].reading_date = DayKey(t)}
  IN IF found = {} THEN 0 ELSE rs[SetMin(found)].daily_miles

overUnderPctOf(overUnder, allowanceToDate) ==
  IF NumLt(NumZero, allowanceToDate) THEN NumDiv(overUnder, allowanceToDate) ELSE NumZero

statsOf(rs, config, t) ==
  LET firstReading    == rs[1]
      latestReading   == rs[Len(rs)]
      currentMiles    == latestReading.reading_miles
      totalMiles      == currentMiles - firstReading.reading_miles
      dailyAllowance  == NumDiv(NumInt(config.annualAllowance), DaysPerYear)
      daysIntoLease   == differenceInDays(t, DateOf(config.leaseStartDate))
      allowanceToDate == NumMul(dailyAllowance,
                                NumInt(IF daysIntoLease > 0 THEN daysIntoLease ELSE 0))
      overUnder       == NumSub(NumInt(totalMiles), allowanceToDate)
      overUnderPct    == overUnderPctOf(overUnder, allowanceToDate)
  IN [currentMiles    |-> NumInt(currentMiles),
      totalMiles      |-> NumInt(totalMiles),
      dailyAllowance  |-> dailyAllowance,
      allowanceToDate |-> allowanceToDate,
      overUnder       |-> overUnder,
      overUnderPct    |-> overUnderPct,
      daysIntoLease   |-> daysIntoLease,
      alertLevel      |-> getAlertLevel(overUnderPct),
      todaysMiles     |-> todaysMilesOf(rs, t)]

\* Variant: the daily allowance is reported even without readings.
emptyStatsWithAllowance ==
  [currentMiles    |-> NumZero,
   totalMiles      |-> NumZero,
   dailyAllowance  |-> NumDiv(NumInt(vehicleConfig.annualAllowance), DaysPerYear),
   allowanceToDate |-> NumZero,
   overUnder       |-> NumZero,
   overUnderPct    |-> NumZero,
   daysIntoLease   |-> 0,
   alertLevel      |-> "green",
   todaysMiles     |-> 0]

emptyStats ==
  [currentMiles    |-> NumZero,
   totalMiles      |-> NumZero,
   dailyAllowance  |-> NumZero,
   allowanceToDate |-> NumZero,
   overUnder       |-> NumZero,
   overUnderPct    |-> NumZero,
   daysIntoLease   |-> 0,
   alertLevel      |-> "green",
   todaysMiles     |-> 0]

\* calculateStats without its blendedPace field, which is calculateBlendedPace
calculateStats ==
  IF Len(readings) = 0 THEN emptyStats
  ELSE statsOf(sortedReadings, vehicleConfig, now)

(***************************************************************************)
(* calculateGasStats                                                       *)
(***************************************************************************)
\* a price of the store (NUMERIC, here in cents) as a number
priceOf(cents) == NumDiv(NumInt(cents), NumInt(100))

\* parseFloat(mpg) || 1
mpgValue(m) == IF m = 0 THEN 1 ELSE m

milesInRange(rs, t, days) ==
  LET cutoff   == subDays(t, days)
      filtered == SelectSeq(rs, LAMBDA r : DateOf(r.reading_date) >= cutoff)
  IN IF Len(filtered) < 2 THEN 0
     ELSE filtered[Len(filtered)].reading_miles - filtered[1].reading_miles

RECURSIVE sumPrices(_, _)
sumPrices(relevant, n) ==
  IF n = 0 THEN NumZero ELSE NumAdd(sumPrices(relevant, n - 1), priceOf(relevant[n].price))

\* Variant: the current price stands for the average of every window.
averagePriceCurrentOnly(history, price, t, days) == priceOf(price[1])

averagePrice(history, price, t, days) ==
  LET cutoff   == subDays(t, days)
      relevant == SelectSeq(history, LAMBDA p : p.recorded_at >= cutoff)
  IN IF Len(relevant) = 0 THEN priceOf(price[1])
     ELSE NumDiv(sumPrices(relevant, Len(relevant)), NumInt(Len(relevant)))

spentOver(rs, m, price, history, t, days) ==
  NumMul(NumDiv(NumInt(milesInRange(rs, t, days)), NumInt(mpgValue(m))),
         averagePrice(history, price, t, days))

\* calculateBlendedPace in the render the effect belongs to
blendedPaceAt(rs, t) ==
  LET sorted == sortReadings(rs)
      thirty == windowReadings(sorted, subDays(t, 30))
      ninety == windowReadings(sorted, subDays(t, 90))
  IN IF tooFewReadings(rs) THEN NULL
     ELSE blendOf([thirtyDayPace |-> IF Len(thirty) >= 2 THEN paceOf(thirty) ELSE NumZero,
                   ninetyDayPace |-> IF Len(ninety) >= 2 THEN paceOf(ninety) ELSE NumZero,
                   lifetimePace  |-> paceOf(sorted),
                   blendedPace   |-> NumZero],
                  [thirty   |-> IF Len(thirty) >= 2 THEN WeightThirty ELSE NumZero,
                   ninety   |-> IF Len(ninety) >= 2 THEN WeightNinety ELSE NumZero,
                   lifetime |-> WeightLifetime])

\* statsObj.blendedPace ? statsObj.blendedPace.blendedPace : 0
dailyPace(rs, t) ==
  LET blended == blendedPaceAt(rs, t)
  IN IF blended # NULL THEN blended.blendedPace ELSE NumZero

forecastOver(pace, m, price, days) ==
  NumMul(NumDiv(NumMul(pace, NumInt(days)), NumInt(mpgValue(m))), priceOf(price[1]))

newStats(rs, m, price, history, t) ==
  LET pace == dailyPace(rs, t)
  IN [spentWeek       |-> spentOver(rs, m, price, history, t, 7),
      spentMonth      |-> spentOver(rs, m, price, history, t, 30),
      spentQuarter    |-> spentOver(rs, m, price, history, t, 90),
      forecastWeek    |-> forecastOver(pace, m, price, 7),
      forecastMonth   |-> forecastOver(pace, m, price, 30),
      forecastQuarter |-> forecastOver(pace, m, price, 90)]

zeroGasStats ==
  [spentWeek    |-> NumZero, spentMonth    |-> NumZero, spentQuarter    |-> NumZero,
   forecastWeek |-> NumZero, forecastMonth |-> NumZero, forecastQuarter |-> NumZero]

\* the early returns of calculateGasStats
gasStatsSkipped(rs, m, price) ==
  price = <<>> \/ price[1] = 0 \/ Len(rs) = 0 \/ mpgValue(m) <= 0

\* the effect on [gasPrice, priceHistory, readings, mpg], run in the state a
\* step leads to
GasStatsEffect ==
  gasStats' = IF gasStatsSkipped(readings', mpg', gasPrice')
              THEN gasStats
              ELSE newStats(readings', mpg', gasPrice', priceHistory', now')

(***************************************************************************)
(* weeklyTrend and weeklyProjectionData                                    *)
(***************************************************************************)
\* the loop over consecutive readings: the miles of each week, by week start
RECURSIVE weekMapFrom(_, _, _)
weekMapFrom(rs, i, weekMap) ==
  IF i > Len(rs) THEN weekMap
  ELSE LET delta == rs[i].reading_miles - rs[i - 1].reading_miles
           key   == startOfWeek(rs[i].reading_date)
       IN IF delta <= 0 THEN weekMapFrom(rs, i + 1, weekMap)
          ELSE weekMapFrom(rs, i + 1,
                 [k \in DOMAIN weekMap \cup {key} |->
                    IF k \in DOMAIN weekMap
                    THEN (IF k = key THEN weekMap[k] + delta ELSE weekMap[k])
                    ELSE delta])

\* the weeks by week start, each with its miles and the weekly allowance
RECURSIVE weeksFrom(_, _, _)
weeksFrom(weekMap, starts, allowance) ==
  IF starts = <<>> THEN <<>>
  ELSE <<[weekStart |-> Head(starts),
          miles     |-> weekMap[Head(starts)],
          allowance |-> allowance]>> \o weeksFrom(weekMap, Tail(starts), allowance)

weeklyTrendOf(rs, config) ==
  IF Len(rs) < 2 THEN <<>>
  ELSE LET weekMap        == weekMapFrom(sortReadings(rs), 2, <<>>)
           dailyAllowance == NumDiv(NumInt(config.annualAllowance), DaysPerYear)
       IN weeksFrom(weekMap, sortedDatesOf(DOMAIN weekMap),
                    NumMul(dailyAllowance, NumInt(7)))

weeklyTrend == weeklyTrendOf(readings, vehicleConfig)

\* sorted.slice(-4)
recentWeeksOf(sorted) ==
  IF Len(sorted) <= 4 THEN sorted ELSE SubSeq(sorted, Len(sorted) - 3, Len(sorted))

RECURSIVE SumTo(_, _)
SumTo(f, n) == IF n = 0 THEN 0 ELSE SumTo(f, n - 1) + f[n]

\* the least-squares line through the recent weeks, x = 0, 1, ...
trendLineOf(recentWeeks) ==
  LET n            == Len(recentWeeks)
      sumX         == SumTo([i \in 1..n |-> i - 1], n)
      sumY         == SumTo([i \in 1..n |-> recentWeeks[i].miles], n)
      sumXY        == SumTo([i \in 1..n |-> (i - 1) * recentWeeks[i].miles], n)
      sumX2        == SumTo([i \in 1..n |-> (i - 1) * (i - 1)], n)
      denominator  == n * sumX2 - sumX * sumX
      averageMiles == NumDiv(NumInt(sumY), NumInt(n))
      slope        == NumDiv(NumInt(n * sumXY - sumX * sumY), NumInt(denominator))
  IN IF n >= 2 /\ denominator # 0
     THEN [slope     |-> slope,
           intercept |-> NumDiv(NumSub(NumInt(sumY), NumMul(slope, NumInt(sumX))),
                                NumInt(n))]
     ELSE [slope |-> NumZero, intercept |-> averageMiles]

\* Variant: the projection starts one week late on the line.
projectionIndexLate(n, index) == n + index + 1

\* recentWeeks.length + index, index counted from 0
projectionIndexOf(n, index) == n + index

\* Variant: a projected value below 0 is kept.
projectionPointUnclamped(line, lastWeekStart, n, index) ==
  [weekStart |-> addDays(lastWeekStart, (index + 1) * 7),
   projected |-> NumAdd(line.intercept,
                        NumMul(line.slope, NumInt(projectionIndexOf(n, index))))]

projectionPoint(line, lastWeekStart, n, index) ==
  [weekStart |-> addDays(lastWeekStart, (index + 1) * 7),
   projected |-> NumMax(NumZero,
                   NumAdd(line.intercept,
                          NumMul(line.slope, NumInt(projectionIndexOf(n, index)))))]

weeklyProjectionOf(trend) ==
  IF Len(trend) = 0 THEN <<>>
  ELSE LET recentWeeks   == recentWeeksOf(trend)
           line          == trendLineOf(recentWeeks)
           lastWeekStart == trend[Len(trend)].weekStart
           n             == Len(recentWeeks)
       IN <<projectionPoint(line, lastWeekStart, n, 0),
            projectionPoint(line, lastWeekStart, n, 1),
            projectionPoint(line, lastWeekStart, n, 2),
            projectionPoint(line, lastWeekStart, n, 3)>>

weeklyProjectionData == weeklyProjectionOf(weeklyTrend)

(***************************************************************************)
(* The pages of the weekly trend.                                          *)
(***************************************************************************)
WEEKS_PER_PAGE == 4

\* Math.ceil(weeks / WEEKS_PER_PAGE)
totalWeeklyPagesOf(weeks) == (weeks + WEEKS_PER_PAGE - 1) \div WEEKS_PER_PAGE

\* Math.max(0, Math.ceil(weeks / WEEKS_PER_PAGE) - 1)
maxPageOf(weeks) ==
  IF totalWeeklyPagesOf(weeks) - 1 > 0 THEN totalWeeklyPagesOf(weeks) - 1 ELSE 0

\* Variant: the page is left where it is when the trend gets shorter.
clampWeekPageNever(page, weeks) == page

\* the effect on [weekPage, weeklyTrend.length]
clampWeekPage(page, weeks) == IF page > maxPageOf(weeks) THEN maxPageOf(weeks) ELSE page

\* the clamping effect, run in the state a step leads to
WeekPageEffect ==
  weekPage' = clampWeekPage(weekPage, Len(weeklyTrendOf(readings', vehicleConfig')))

\* weeklyTrend.slice(start, end) of a page
visibleWeeklyDataOf(trend, page) ==
  IF Len(trend) = 0 THEN <<>>
  ELSE LET total == Len(trend)
           first == total - (page + 1) * WEEKS_PER_PAGE
           start == IF first > 0 THEN first ELSE 0
           last  == total - page * WEEKS_PER_PAGE
           end   == IF last > start THEN last ELSE start
       IN SubSeq(trend, start + 1, end)

visibleWeeklyData == visibleWeeklyDataOf(weeklyTrend, weekPage)

canGoToPreviousWeeks == weekPage < maxPageOf(Len(weeklyTrend))
canGoToNextWeeks == weekPage > 0

\* the button "Previous 4 Weeks", and the clamping effect after it
PreviousWeeks ==
  /\ canGoToPreviousWeeks
  /\ weekPage' = clampWeekPage(IF weekPage + 1 < maxPageOf(Len(weeklyTrend))
                                THEN weekPage + 1 ELSE maxPageOf(Len(weeklyTrend)),
                               Len(weeklyTrend))
  /\ UNCHANGED <<modalVars, odometer_logs, readings, loading, vehicleId, readingLoads, configVars,
                 tripVars, gasVars, gasStats, alertMessage, now, stubResults>>

\* the button "Next 4 Weeks", and the clamping effect after it
NextWeeks ==
  /\ canGoToNextWeeks
  /\ weekPage' = clampWeekPage(IF weekPage - 1 > 0 THEN weekPage - 1 ELSE 0,
                               Len(weeklyTrend))
  /\ UNCHANGED <<modalVars, odometer_logs, readings, loading, vehicleId, readingLoads, configVars,
                 tripVars, gasVars, gasStats, alertMessage, now, stubResults>>

(***************************************************************************)
(* The dashboard: mount, the two queries of the mount effects, and the     *)
(* odometer button.                                                        *)
(***************************************************************************)
envConfig == [leaseStartDate |-> EnvLeaseStart, annualAllowance |-> EnvAnnualAllowance]

InitialNow == DateOf(100)

\* .order('reading_date', { ascending: true }): the rows by date, rows of one
\* date in any order
RECURSIVE Orderings(_)
Orderings(B) ==
  IF BagToSet(B) = {} THEN {<<>>}
  ELSE LET m == SetMin({r.reading_date : r \in BagToSet(B)})
       IN UNION { { <<r>> \o rest : rest \in Orderings(B (-) SetToBag({r})) } :
                  r \in {x \in BagToSet(B) : x.reading_date = m} }

EnvVehicleId == "truck"
StoredVehicleId == "van"
DefaultStationId == "26449"
OtherStationId == "11111"
NoAlert == ""

VehicleIds == {EnvVehicleId, StoredVehicleId}

\* a vehicles table with these rows (or NULL for no row) for the two vehicles
vehicleTable(truckRow, vanRow) ==
  [v \in VehicleIds |-> IF v = EnvVehicleId THEN truckRow ELSE vanRow]

\* the vehicle ids the mount effects have run for: the default one, and the
\* stored one once it is selected
mountedFor(stored) == {EnvVehicleId} \cup {stored[i] : i \in DOMAIN stored}

\* .eq('vehicle_id', v): the rows of one vehicle
logsOf(v) ==
  LET rows == {r \in BagToSet(odometer_logs) : r.vehicle_id = v}
  IN [r \in rows |-> odometer_logs[r]]

\* the reset trip form: no name, both dates today, no miles. A date field holds
\* <<>> for '' and <<day>> for a date; the miles field holds the typed characters.
emptyTripForm(t) ==
  [name |-> "", startDate |-> <<DayKey(t)>>, endDate |-> <<DayKey(t)>>, estimatedMiles |-> <<>>]

\* the modal's reset form: today's date, no miles, no notes. The date field
\* holds <<>> for '' and <<day>> for a date, the miles field <<>> for '' and
\* <<miles>> for the number typed.
emptyReadingForm(t) == [date |-> <<DayKey(t)>>, miles |-> <<>>, notes |-> ""]

\* .eq('station_id').gte(today 00:00).lt(today 23:59:59.999): a station's rows of a day
rowsOfDay(station, day) ==
  SelectSeq(gas_prices, LAMBDA row : row.station_id = station /\ DayKey(row.recorded_at) = day)

\* loadGasPrice up to its first query: today is taken, the query is in flight.
\* pc is the await the call stands at: "today", "history", "fetch", "insert",
\* or "done"; calls and inserts count its fetches and its inserts. Two fields
\* record the call's history: sampleAtStart, whether the table held a row of
\* today for the station when the call began, and storeError, whether one of
\* its queries was answered with an error.
newLookup(station, t) ==
  [station       |-> station,
   today         |-> DayKey(t),
   pc            |-> "today",
   todayPrice    |-> <<>>,
   cutoff        |-> 0,
   history       |-> <<>>,
   fetched       |-> <<>>,
   recorded_at   |-> 0,
   currentPrice  |-> <<>>,
   calls         |-> 0,
   inserts       |-> 0,
   sampleAtStart |-> Len(rowsOfDay(station, DayKey(t))) > 0,
   storeError    |-> FALSE]

\* The component after its mount effects have run: the stored vehicle id, if
\* any, is selected; the loads of the default vehicle and of the selected one,
\* the vehicle-config query and the price lookup are in flight.
Mounted(stored) ==
  /\ readings = <<>>
  /\ loading = TRUE
  /\ vehicleConfig = envConfig
  /\ configRequest = mountedFor(stored)
  /\ now = InitialNow
  /\ vehicleId = IF stored = <<>> THEN EnvVehicleId ELSE stored[1]
  /\ readingLoads = SetToBag(mountedFor(stored))
  /\ weekPage = 0
  /\ mpg = 30
  /\ mpgRequest = mountedFor(stored)
  /\ tripEvents = <<>>
  /\ tripLoads = SetToBag(mountedFor(stored))
  /\ newTrip = emptyTripForm(InitialNow)
  /\ alertMessage = NoAlert
  /\ stubResults = {}
  /\ stationId = DefaultStationId
  /\ lookups = <<newLookup(DefaultStationId, InitialNow)>>
  /\ gasPrice = <<>>
  /\ priceHistory = <<>>
  /\ gasStats = zeroGasStats
  /\ fetchCalls = 0
  /\ isOpen = FALSE
  /\ isSubmitting = FALSE
  /\ newReading = emptyReadingForm(InitialNow)
  /\ insertRequest = <<>>
  /\ alertsShown = <<>>

Init ==
  /\ odometer_logs = EmptyBag
  /\ vehicles \in {vehicleTable(row, NULL) : row \in {NULL} \cup VehicleRows}
  /\ trip_events = {}
  /\ gas_prices = <<>>
  /\ Mounted(<<>>)

\* handleOdometerButtonAdd: the insert succeeds and loadReadings starts. The
\* button is rendered only while the component is not loading.
AddReading(e, maxRows) ==
  /\ ~loading
  /\ BagCardinality(odometer_logs) < maxRows
  /\ odometer_logs' = odometer_logs (+)
       SetToBag({[vehicle_id    |-> vehicleId,
                  reading_date  |-> e.reading_date,
                  reading_miles |-> e.reading_miles]})
  /\ loading' = TRUE
  /\ readingLoads' = readingLoads (+) SetToBag({vehicleId})
  /\ UNCHANGED <<modalVars, readings, vehicleId, weekPage, configVars, tripVars, gasVars, gasStats,
                 alertMessage, now, stubResults>>

\* loadReadings: the query answers with the rows
LoadReadingsResolve ==
  /\ \E v \in BagToSet(readingLoads) :
       /\ \E data \in Orderings(logsOf(v)) : readings' = aggregate(data)
       /\ readingLoads' = readingLoads (-) SetToBag({v})
  /\ loading' = FALSE
  /\ UNCHANGED <<modalVars, odometer_logs, vehicleId, configVars, tripVars, gasVars,
                 alertMessage, now, stubResults>>
  /\ WeekPageEffect
  /\ GasStatsEffect

\* loadReadings: the query answers with an error, or throws
LoadReadingsError ==
  /\ \E v \in BagToSet(readingLoads) :
       readingLoads' = readingLoads (-) SetToBag({v})
  /\ loading' = FALSE
  /\ UNCHANGED <<modalVars, odometer_logs, readings, vehicleId, weekPage, configVars, tripVars, gasVars,
                 gasStats, alertMessage, now, stubResults>>

configOf(vehicleData) ==
  [leaseStartDate  |-> IF vehicleData # NULL /\ vehicleData.lease_start # <<>>
                       THEN vehicleData.lease_start[1] ELSE EnvLeaseStart,
   annualAllowance |-> IF vehicleData # NULL /\ vehicleData.annual_allowance # <<>>
                       THEN vehicleData.annual_allowance[1] ELSE EnvAnnualAllowance]

\* Variant: the effect's cleanup does not clear isMounted.
isMountedAlways(v) == TRUE

\* isMounted of the effect run for vehicle v: cleared by the effect's cleanup
\* when the selected vehicle changes
isMounted(v) == v = vehicleId

\* the vehicle-config effect: the query for vehicle v answers
LoadVehicleConfigResolve ==
  /\ \E v \in configRequest :
       /\ configRequest' = configRequest \ {v}
       /\ vehicleConfig' = IF isMounted(v) THEN configOf(vehicles[v]) ELSE vehicleConfig
  /\ UNCHANGED <<modalVars, readingVars, vehicles, mpg, mpgRequest, tripVars, gasVars, gasStats,
                 alertMessage, now, stubResults>>

\* the vehicle-config effect: the query answers with an error
LoadVehicleConfigError ==
  /\ \E v \in configRequest : configRequest' = configRequest \ {v}
  /\ UNCHANGED <<modalVars, readingVars, vehicles, vehicleConfig, mpg, mpgRequest, tripVars,
                 gasVars, gasStats, alertMessage, now, stubResults>>

\* time passes
Tick ==
  /\ now < InitialNow + MaxTicks
  /\ now' = now + 1
  /\ UNCHANGED <<modalVars, readingVars, configVars, tripVars, gasVars, gasStats, alertMessage,
                 stubResults>>

Next ==
  \/ \E e \in Entries : AddReading(e, MaxRows)
  \/ LoadReadingsResolve
  \/ LoadReadingsError
  \/ LoadVehicleConfigResolve
  \/ LoadVehicleConfigError
  \/ Tick

Spec == Init /\ [][Next]_vars

(***************************************************************************)
(* Properties of the aggregation.                                          *)
(***************************************************************************)
StrictlyIncreasingDates(a) ==
  \A i \in 1..(Len(a) - 1) : a[i].reading_date < a[i + 1].reading_date

OnePerDate(data) ==
  \A i, j \in DOMAIN data : i # j => data[i].reading_date # data[j].reading_date

RawOf(a) ==
  [i \in DOMAIN a |-> [reading_date |-> a[i].reading_date, reading_miles |-> a[i].reading_miles]]

\* C1: whatever rows the table holds and in whatever order the query returns
\* rows of one date, the aggregated series has strictly increasing dates (no
\* date twice) and every daily_miles is >= 0; so has the readings state.
C1_AggregateOrdered ==
  /\ StrictlyIncreasingDates(readings)
  /\ \A i \in DOMAIN readings : readings[i].daily_miles >= 0
  /\ \A data \in Orderings(logsOf(vehicleId)) :
       LET a == aggregate(data)
       IN /\ StrictlyIncreasingDates(a)
          /\ \A i \in DOMAIN a : a[i].daily_miles >= 0

\* C1 case: a loaded series in which the odometer value falls from one date to
\* the next, and the delta of the later date is 0.
C1_Witness ==
  /\ ~loading
  /\ \E i \in 2..Len(readings) :
       /\ readings[i].reading_miles < readings[i - 1].reading_miles
       /\ readings[i].daily_miles = 0

\* C2: aggregating an aggregated series again yields the same series (same
\* dates, same end-of-day miles, same daily deltas), and a series with one row
\* per date keeps its dates and miles.
C2_AggregateIdempotent ==
  \A data \in Orderings(logsOf(vehicleId)) :
    LET a == aggregate(data)
    IN /\ aggregate(a) = a
       /\ aggregate(RawOf(a)) = a
       /\ OnePerDate(data) => RawOf(a) = RawOf(data)

\* C2 case: the table holds several rows of one date, the loaded series has a
\* positive delta, and it is re-aggregated.
C2_Witness ==
  /\ ~loading
  /\ readings = aggregate(RawOf(readings))
  /\ BagCardinality(odometer_logs) > Len(readings)
  /\ \E i \in DOMAIN readings : readings[i].daily_miles > 0

(***************************************************************************)
(* Properties of the pace.                                                 *)
(***************************************************************************)
IsNumber(x) ==
  /\ DOMAIN x = {"sgn", "man", "exp"}
  /\ x.sgn \in {0, 1}
  /\ x.man = <<>> \/ BBitLen(x.man) = MantBits

\* C3: calculateBlendedPace returns null for a series of 0 or 1 entries, and
\* a record of four numbers for every series of 2 or more entries.
C3_PaceNullBelowTwo ==
  LET pace == calculateBlendedPace
  IN /\ Len(readings) < 2 => pace = NULL
     /\ Len(readings) >= 2 =>
          /\ pace # NULL
          /\ IsNumber(pace.thirtyDayPace)
          /\ IsNumber(pace.ninetyDayPace)
          /\ IsNumber(pace.lifetimePace)
          /\ IsNumber(pace.blendedPace)

\* C3 case: a table with several rows whose loaded series has one entry only,
\* so no pace is available.
C3_Witness ==
  /\ ~loading
  /\ Len(readings) = 1
  /\ BagCardinality(odometer_logs) >= 2
  /\ calculateBlendedPace = NULL

AllWindowsComputable ==
  /\ Len(readings) >= 2
  /\ Len(thirtyDayReadings) >= 2
  /\ Len(ninetyDayReadings) >= 2

MinPace == NumMin(thirtyDayPace, NumMin(ninetyDayPace, lifetimePace))
MaxPace == NumMax(thirtyDayPace, NumMax(ninetyDayPace, lifetimePace))

NumAbs(x) == IF x.sgn = 1 THEN NumNeg(x) ELSE x

\* 2^-50 of the largest absolute pace: four units in the last place
PaceTolerance ==
  NumDiv(NumMax(NumAbs(MinPace), NumAbs(MaxPace)),
         NumMul(NumInt(2 ^ 25), NumInt(2 ^ 25)))

\* C4 as stated: with all three windows computable, blendedPace lies in
\* [min, max] of the three paces.
C4_BlendWithinRange ==
  AllWindowsComputable =>
    /\ NumLe(MinPace, calculateBlendedPace.blendedPace)
    /\ NumLe(calculateBlendedPace.blendedPace, MaxPace)

\* C4, amended: with all three windows computable, blendedPace lies in
\* [min, max] of the three paces up to the rounding of the floating-point
\* sum, at most 2^-50 of the largest absolute pace on either side.
C4_BlendWithinRangeRounded ==
  AllWindowsComputable =>
    /\ NumLe(NumSub(MinPace, PaceTolerance), calculateBlendedPace.blendedPace)
    /\ NumLe(calculateBlendedPace.blendedPace, NumAdd(MaxPace, PaceTolerance))

\* C4 case: all three windows computable and the three paces not all equal.
C4_Witness ==
  /\ AllWindowsComputable
  /\ NumLt(MinPace, MaxPace)
  /\ NumLt(NumZero, MaxPace)

(***************************************************************************)
(* Properties of the allowance statistics and of the alert tier.           *)
(***************************************************************************)
\* C5: the tier is green whenever the total miles driven are at most the
\* allowance to date, whatever the series, the lease start and the clock are;
\* that includes a lease that has not started (allowance to date 0).
C5_GreenWithinAllowance ==
  LET stats == calculateStats
  IN NumLe(stats.totalMiles, stats.allowanceToDate) => stats.alertLevel = "green"

\* C5 case: a loaded series with miles driven, within a positive allowance.
C5_Witness ==
  /\ Len(readings) >= 2
  /\ NumLt(NumZero, calculateStats.totalMiles)
  /\ NumLe(calculateStats.totalMiles, calculateStats.allowanceToDate)
  /\ calculateStats.alertLevel = "green"

\* balancePercent = (totalMilesDriven - allowanceToDate) / allowanceToDate
balancePercentOf(stats) ==
  NumDiv(NumSub(stats.totalMiles, stats.allowanceToDate), stats.allowanceToDate)

TierOf(balancePercent) ==
  IF NumLe(balancePercent, NumZero) THEN "green"
  ELSE IF NumLe(balancePercent, NumDiv(NumInt(5), NumInt(100))) THEN "yellow"
  ELSE IF NumLe(balancePercent, NumDiv(NumInt(10), NumInt(100))) THEN "orange"
  ELSE "red"

\* total miles = allowance * (100 + percent) / 100, exactly
ExactlyPercentOver(stats, percent) ==
  NumEq(NumMul(stats.totalMiles, NumInt(100)),
        NumMul(stats.allowanceToDate, NumInt(100 + percent)))

C7_WarningsStartAtTwoPercent ==
  LET stats == calculateStats
      two   == NumDiv(NumInt(2), NumInt(100))
  IN (Len(readings) >= 1 /\ NumLt(NumZero, stats.allowanceToDate)) =>
       /\ NumLt(balancePercentOf(stats), two) => stats.alertLevel = "green"
       /\ stats.alertLevel = "yellow" =>
            /\ NumLe(two, balancePercentOf(stats))
            /\ NumLe(balancePercentOf(stats), FivePercent)
       /\ stats.alertLevel = "orange" =>
            /\ NumLe(FivePercent, balancePercentOf(stats))
            /\ NumLe(balancePercentOf(stats), TenPercent)
       /\ stats.alertLevel = "red" => NumLe(TenPercent, balancePercentOf(stats))

\* C8: without readings every allowance statistic is zero and the tier is
\* green, whatever the lease configuration is.
C8_ZeroReadingsZeroStats ==
  Len(readings) = 0 =>
    /\ calculateStats.totalMiles = NumZero
    /\ calculateStats.dailyAllowance = NumZero
    /\ calculateStats.allowanceToDate = NumZero
    /\ calculateStats.overUnder = NumZero
    /\ calculateStats.overUnderPct = NumZero
    /\ calculateStats.currentMiles = NumZero
    /\ calculateStats.daysIntoLease = 0
    /\ calculateStats.todaysMiles = 0
    /\ calculateStats.alertLevel = "green"
    /\ calculateBlendedPace = NULL

\* C8 case: no readings after the load, under a lease configuration read from
\* the vehicles table whose lease is under way.
C8_Witness ==
  /\ ~loading
  /\ Len(readings) = 0
  /\ configRequest = {}
  /\ vehicleConfig # envConfig
  /\ DateOf(vehicleConfig.leaseStartDate) < now
  /\ calculateStats.alertLevel = "green"

\* C9 as stated, the blended pace taken up to rounding: for exactly two
\* aggregates k >= 1 days apart whose earlier date is not before today minus
\* 30 days, the 30-day, 90-day and lifetime paces all equal
\* (later miles - earlier miles) / k, and so does the blended pace.
C9_TwoAggregatesAllPacesEqual ==
  (/\ Len(readings) = 2
   /\ readings[1].reading_date >= DayKey(now) - 30
   /\ readings[2].reading_date <= DayKey(now)) =>
     LET k     == readings[2].reading_date - readings[1].reading_date
         pace  == NumDiv(NumInt(readings[2].reading_miles - readings[1].reading_miles),
                         NumInt(k))
         tol   == NumDiv(NumAbs(pace), NumMul(NumInt(2 ^ 25), NumInt(2 ^ 25)))
         paces == calculateBlendedPace
     IN /\ paces # NULL
        /\ paces.thirtyDayPace = pace
        /\ paces.ninetyDayPace = pace
        /\ paces.lifetimePace = pace
        /\ NumLe(NumSub(pace, tol), paces.blendedPace)
        /\ NumLe(paces.blendedPace, NumAdd(pace, tol))

(***************************************************************************)
(* The weekly projection, checked on series of weekly readings.            *)
(***************************************************************************)
InitW ==
  /\ odometer_logs = EmptyBag
  /\ vehicles = vehicleTable(NULL, NULL)
  /\ trip_events = {}
  /\ gas_prices = <<>>
  /\ Mounted(<<>>)

NextW ==
  \/ \E e \in WeeklyEntries : AddReading(e, MaxWeeklyRows)
  \/ LoadReadingsResolve
  \/ LoadReadingsError

SpecW == InitW /\ [][NextW]_vars

\* the recent weeks lie on one line: every week-to-week step is the same
OnALine(weeks) ==
  \A i \in 2..(Len(weeks) - 1) :
    weeks[i + 1].miles - weeks[i].miles = weeks[2].miles - weeks[1].miles

\* C10: when the most recent weeks of the trend (2 to 4 of them) lie on a line
\* with slope s, the j-th projected week, j = 1..4, is the last week's miles
\* plus j * s, clamped at 0, and starts j weeks after the last week.
C10_ProjectionContinuesLine ==
  LET trend       == weeklyTrend
      recentWeeks == recentWeeksOf(trend)
      projection  == weeklyProjectionOf(trend)
      n           == Len(recentWeeks)
  IN (n >= 2 /\ OnALine(recentWeeks)) =>
       LET s    == recentWeeks[2].miles - recentWeeks[1].miles
           last == recentWeeks[n]
       IN /\ Len(projection) = 4
          /\ \A j \in 1..4 :
               /\ projection[j].projected =
                    NumInt(IF last.miles + j * s > 0 THEN last.miles + j * s ELSE 0)
               /\ projection[j].weekStart = addDays(last.weekStart, 7 * j)

\* C10 case: the weeks 100, 120, 140, 160 are projected to 180 for the next.
C10_Witness ==
  /\ ~loading
  /\ Len(weeklyTrend) = 4
  /\ [i \in 1..4 |-> weeklyTrend[i].miles] = <<100, 120, 140, 160>>
  /\ weeklyProjectionData[1].projected = NumInt(180)

(***************************************************************************)
(* End-of-day miles and daily deltas.                                      *)
(***************************************************************************)
\* every order in which the rows of a bag can arrive
RECURSIVE Arrivals(_)
Arrivals(B) ==
  IF BagToSet(B) = {} THEN {<<>>}
  ELSE UNION { { <<r>> \o rest : rest \in Arrivals(B (-) SetToBag({r})) } :
               r \in BagToSet(B) }

RawMaxOn(B, d) == SetMax({r.reading_miles : r \in {x \in BagToSet(B) : x.reading_date = d}})

MaxTrips == 2
MaxLoads == 2

Digits == <<"0", "1", "2", "3", "4", "5", "6", "7", "8", "9">>

IsDigit(c) == \E i \in DOMAIN Digits : Digits[i] = c

DigitValue(c) == (CHOOSE i \in DOMAIN Digits : Digits[i] = c) - 1

\* the value of the leading run of digits of chars from position i on
RECURSIVE digitsFrom(_, _, _)
digitsFrom(chars, i, acc) ==
  IF i <= Len(chars) /\ IsDigit(chars[i])
  THEN digitsFrom(chars, i + 1, acc * 10 + DigitValue(chars[i]))
  ELSE acc

RECURSIVE skipSpaces(_, _)
skipSpaces(chars, i) ==
  IF i <= Len(chars) /\ chars[i] = " " THEN skipSpaces(chars, i + 1) ELSE i

\* parseInt(string): leading white space is skipped, a sign is read, then the
\* longest run of digits; what follows is ignored. <<>> stands for NaN.
parseInt(chars) ==
  LET i    == skipSpaces(chars, 1)
      neg  == i <= Len(chars) /\ chars[i] = "-"
      j    == IF i <= Len(chars) /\ chars[i] \in {"-", "+"} THEN i + 1 ELSE i
  IN IF j <= Len(chars) /\ IsDigit(chars[j])
     THEN <<(IF neg THEN -1 ELSE 1) * digitsFrom(chars, j, 0)>>
     ELSE <<>>

\* trips the user plans: one that ended, one that ends today, one that ends later
PlannedTrips ==
  { [name |-> "Cabin", startDate |-> <<99>>, endDate |-> <<102>>, estimatedMiles |-> <<"4", "0", "0">>],
    [name |-> "Cabin", startDate |-> <<98>>, endDate |-> <<99>>,  estimatedMiles |-> <<"2", "5", "0">>],
    [name |-> "Cabin", startDate |-> <<99>>, endDate |-> <<100>>, estimatedMiles |-> <<"1", "2", "0">>] }

\* what the user can have typed into the trip form
TripForms ==
  { [name |-> "Cabin", startDate |-> <<99>>, endDate |-> <<102>>, estimatedMiles |-> <<"4", "0", "0">>],
    [name |-> "",      startDate |-> <<99>>, endDate |-> <<102>>, estimatedMiles |-> <<"4", "0", "0">>],
    [name |-> "Cabin", startDate |-> <<>>,   endDate |-> <<102>>, estimatedMiles |-> <<"4", "0", "0">>],
    [name |-> "Cabin", startDate |-> <<99>>, endDate |-> <<>>,    estimatedMiles |-> <<"4", "0", "0">>],
    [name |-> "Cabin", startDate |-> <<99>>, endDate |-> <<102>>, estimatedMiles |-> <<>>],
    [name |-> "Cabin", startDate |-> <<99>>, endDate |-> <<102>>, estimatedMiles |-> <<"a", "b", "c">>],
    [name |-> "Cabin", startDate |-> <<99>>, endDate |-> <<102>>, estimatedMiles |-> <<"-", "5">>],
    [name |-> "Cabin", startDate |-> <<99>>, endDate |-> <<102>>, estimatedMiles |-> <<"1", "2", "a", "b", "c">>] }

FillInAllFields == "Please fill in all trip fields"
EnterValidNumber == "Please enter a valid number for estimated miles"
ErrorAddingTrip == "Error adding trip. Please try again."
ErrorDeletingTrip == "Error deleting trip. Please try again."

\* gen_random_uuid(): an id no stored trip has
freshTripId == SetMin((1..(MaxTrips + 1)) \ {t.id : t \in trip_events})

\* the trip form's onChange handlers
SetNewTrip(form) ==
  /\ newTrip # form
  /\ newTrip' = form
  /\ UNCHANGED <<modalVars, trip_events, tripEvents, tripLoads, readingVars, configVars, gasVars,
                 gasStats, alertMessage, now, stubResults>>

\* handleAddTrip, with the answer of the insert: the two validations, the
\* insert, and on success the form reset and the start of loadTripEvents
HandleAddTrip ==
  LET estimatedMiles == parseInt(newTrip.estimatedMiles)
  IN IF newTrip.name = "" \/ newTrip.startDate = <<>> \/ newTrip.endDate = <<>>
          \/ newTrip.estimatedMiles = <<>>
     THEN /\ alertMessage' = FillInAllFields
          /\ UNCHANGED <<modalVars, tripVars, readingVars, configVars, gasVars, gasStats, now, stubResults>>
     ELSE IF estimatedMiles = <<>> \/ estimatedMiles[1] < 0
     THEN /\ alertMessage' = EnterValidNumber
          /\ UNCHANGED <<modalVars, tripVars, readingVars, configVars, gasVars, gasStats, now, stubResults>>
     ELSE /\ Cardinality(trip_events) < MaxTrips
          /\ BagCardinality(tripLoads) < MaxLoads
          /\ \E ok \in BOOLEAN :
               IF ok
               THEN /\ trip_events' = trip_events \cup
                         {[id         |-> freshTripId,
                           vehicle_id |-> vehicleId,
                           name       |-> newTrip.name,
                           start_date |-> newTrip.startDate[1],
                           end_date   |-> newTrip.endDate[1],
                           est_miles  |-> estimatedMiles[1]]}
                    /\ newTrip' = emptyTripForm(now)
                    /\ tripLoads' = tripLoads (+) SetToBag({vehicleId})
                    /\ alertMessage' = NoAlert
                    /\ UNCHANGED tripEvents
               ELSE /\ alertMessage' = ErrorAddingTrip
                    /\ UNCHANGED tripVars
          /\ UNCHANGED <<modalVars, readingVars, configVars, gasVars, gasStats, now, stubResults>>

\* handleDeleteTrip of a listed trip, with the answer of the delete
HandleDeleteTrip(tripId) ==
  /\ \E i \in DOMAIN tripEvents : tripEvents[i].id = tripId
  /\ BagCardinality(tripLoads) < MaxLoads
  /\ \E ok \in BOOLEAN :
       IF ok
       THEN /\ trip_events' = {t \in trip_events : t.id # tripId}
            /\ tripLoads' = tripLoads (+) SetToBag({vehicleId})
            /\ alertMessage' = NoAlert
       ELSE /\ alertMessage' = ErrorDeletingTrip
            /\ UNCHANGED <<trip_events, tripLoads>>
  /\ UNCHANGED <<modalVars, tripEvents, newTrip, readingVars, configVars, gasVars, gasStats, now, stubResults>>

\* .order('start_date', { ascending: true }): the rows by start date, rows of
\* one start date in any order
RECURSIVE TripOrderings(_)
TripOrderings(S) ==
  IF S = {} THEN {<<>>}
  ELSE LET m == SetMin({t.start_date : t \in S})
       IN UNION { { <<t>> \o rest : rest \in TripOrderings(S \ {t}) } :
                  t \in {x \in S : x.start_date = m} }

\* loadTripEvents: rows without id, name or dates are dropped, the others mapped
validTrips(raw) ==
  LET kept == SelectSeq(raw, LAMBDA trip : trip.name # "")
  IN [i \in DOMAIN kept |->
        [id              |-> kept[i].id,
         vehicle_id      |-> kept[i].vehicle_id,
         event_name      |-> kept[i].name,
         start_date      |-> kept[i].start_date,
         end_date        |-> kept[i].end_date,
         estimated_miles |-> kept[i].est_miles]]

\* loadTripEvents: the query answers with the rows
LoadTripEventsResolve ==
  /\ \E v \in BagToSet(tripLoads) :
       /\ \E raw \in TripOrderings({t \in trip_events : t.vehicle_id = v}) :
            tripEvents' = validTrips(raw)
       /\ tripLoads' = tripLoads (-) SetToBag({v})
  /\ UNCHANGED <<modalVars, trip_events, newTrip, readingVars, configVars, gasVars, gasStats,
                 alertMessage, now, stubResults>>

\* loadTripEvents: the query answers with an error, or throws
LoadTripEventsError ==
  /\ \E v \in BagToSet(tripLoads) : tripLoads' = tripLoads (-) SetToBag({v})
  /\ UNCHANGED <<modalVars, trip_events, tripEvents, newTrip, readingVars, configVars, gasVars,
                 gasStats, alertMessage, now, stubResults>>

startOfDay(t) == DateOf(DayKey(t))

\* Variant: a trip that ends today no longer counts.
futureTripEventsAfterToday ==
  SelectSeq(tripEvents, LAMBDA trip : DateOf(trip.end_date) > startOfDay(now))

futureTripEvents ==
  SelectSeq(tripEvents, LAMBDA trip : DateOf(trip.end_date) >= startOfDay(now))

RECURSIVE sumMiles(_, _)
sumMiles(trips, n) ==
  IF n = 0 THEN 0 ELSE sumMiles(trips, n - 1) + trips[n].estimated_miles

futureTripMiles == sumMiles(futureTripEvents, Len(futureTripEvents))

availableMiles == NumSub(calculateStats.allowanceToDate, calculateStats.totalMiles)

projectedAvailableMiles == NumSub(availableMiles, NumInt(futureTripMiles))

\* the odometer_logs rows the trips dashboard starts with
StoredReadings ==
  SetToBag({[vehicle_id |-> EnvVehicleId, reading_date |-> 50,  reading_miles |-> 1500],
            [vehicle_id |-> EnvVehicleId, reading_date |-> 100, reading_miles |-> 1900]})

InitT ==
  /\ odometer_logs = StoredReadings
  /\ vehicles = vehicleTable(NULL, NULL)
  /\ trip_events = {}
  /\ gas_prices = <<>>
  /\ Mounted(<<>>)

NextT ==
  \/ \E form \in PlannedTrips : SetNewTrip(form)
  \/ HandleAddTrip
  \/ \E tripId \in 1..(MaxTrips + 1) : HandleDeleteTrip(tripId)
  \/ LoadTripEventsResolve
  \/ LoadTripEventsError
  \/ LoadReadingsResolve
  \/ Tick

SpecT == InitT /\ [][NextT]_vars

\* the trip form with everything a user can type into it
NextF ==
  \/ \E form \in TripForms : SetNewTrip(form)
  \/ HandleAddTrip
  \/ \E tripId \in 1..(MaxTrips + 1) : HandleDeleteTrip(tripId)
  \/ LoadTripEventsResolve
  \/ LoadTripEventsError

SpecF == InitT /\ [][NextF]_vars

(***************************************************************************)
(* Properties of the planned trips.                                        *)
(***************************************************************************)
RECURSIVE SumOfMiles(_)
SumOfMiles(I) ==
  IF I = {} THEN 0
  ELSE LET i == CHOOSE x \in I : TRUE
       IN tripEvents[i].estimated_miles + SumOfMiles(I \ {i})

EndingTodayOrLater == {i \in DOMAIN tripEvents : tripEvents[i].end_date >= DayKey(now)}

\* C19: the planned-trip total is the sum of the estimated miles of exactly the
\* listed trips whose end date is today or later (a trip that ended before
\* today adds nothing), and the projected available figure is
\* (allowanceToDate - totalMiles) minus that sum. Both are read off the state:
\* the stored trips, the readings and the lease configuration stay as they are.
C19_TripImpact ==
  LET stats == calculateStats
      total == SumOfMiles(EndingTodayOrLater)
  IN /\ futureTripMiles = total
     /\ projectedAvailableMiles =
          NumSub(NumSub(stats.allowanceToDate, stats.totalMiles), NumInt(total))

\* C19 case: the readings are loaded, the list holds a trip that ended before
\* today and trips that end today and later, and the sum is that of the latter.
C19_Witness ==
  /\ ~loading
  /\ Len(readings) = 2
  /\ \E i, j \in DOMAIN tripEvents :
       /\ tripEvents[i].end_date < DayKey(now)
       /\ tripEvents[j].end_date = DayKey(now)
       /\ futureTripMiles = tripEvents[j].estimated_miles
       /\ futureTripMiles > 0

IsNumeric(chars) ==
  /\ chars # <<>>
  /\ LET j == IF chars[1] = "-" THEN 2 ELSE 1
     IN /\ j <= Len(chars)
        /\ \A i \in j..Len(chars) : IsDigit(chars[i])

InvalidTripForm ==
  \/ newTrip.name = ""
  \/ newTrip.startDate = <<>>
  \/ newTrip.endDate = <<>>
  \/ newTrip.estimatedMiles = <<>>
  \/ ~IsNumeric(newTrip.estimatedMiles)
  \/ newTrip.estimatedMiles[1] = "-"

\* C16: a submission of the trip form with an empty field, or with estimated
\* miles that are not a number or are negative, shows a message and leaves the
\* trip_events table as it was.
C16_InvalidTripWritesNothing ==
  [][HandleAddTrip /\ InvalidTripForm
       => trip_events' = trip_events /\ alertMessage' # NoAlert]_vars

(***************************************************************************)
(* The price lookup: loadGasPrice, the station field, the fetch endpoint   *)
(* and the gas_prices table (a sequence of rows in insertion order).       *)
(***************************************************************************)
MaxLookups == 3

\* prices in cents the endpoint can answer with
FetchedPrices == {349}

\* .order('recorded_at', { ascending: false }).limit(1): the prices a latest row can have
latestPricesOf(rows) ==
  {rows[i].price : i \in {j \in DOMAIN rows : \A k \in DOMAIN rows : rows[k].recorded_at <= rows[j].recorded_at}}

\* the history query: a station's rows from the cutoff on, oldest first
historyOf(station, cutoff) ==
  LET rows == SelectSeq(gas_prices, LAMBDA row : row.station_id = station /\ row.recorded_at >= cutoff)
  IN [i \in DOMAIN rows |-> [price |-> rows[i].price, recorded_at |-> rows[i].recorded_at]]

\* the history window of the lookup and of the spend figures
HistoryDays == 90

\* the station field's onChange: the [stationId] effect starts a lookup
SetStationId(station) ==
  /\ station # stationId
  /\ Len(lookups) < MaxLookups
  /\ stationId' = station
  /\ lookups' = Append(lookups, newLookup(station, now))
  /\ UNCHANGED <<modalVars, gas_prices, gasPrice, priceHistory, fetchCalls, readingVars, configVars,
                 tripVars, gasStats, alertMessage, now, stubResults>>

\* the today query answers: with the latest row of today, with no row, or with
\* an error (no data); the history query starts
TodayQueryResolve(i, ok) ==
  /\ lookups[i].pc = "today"
  /\ LET l    == lookups[i]
         rows == rowsOfDay(l.station, l.today)
     IN \E todayPrice \in IF ok /\ Len(rows) > 0
                          THEN {<<p>> : p \in latestPricesOf(rows)} ELSE {<<>>} :
          lookups' = [lookups EXCEPT ![i] =
                        [l EXCEPT !.pc = "history",
                                  !.todayPrice = todayPrice,
                                  !.cutoff = subDays(now, HistoryDays),
                                  !.storeError = ~ok]]
  /\ UNCHANGED <<modalVars, gas_prices, stationId, gasPrice, priceHistory, fetchCalls, readingVars,
                 configVars, tripVars, gasStats, alertMessage, now, stubResults>>

\* Variant: today's price is not looked at, every lookup fetches.
reusesTodayNever(todayPrice) == FALSE

\* todayPrice && todayPrice.length > 0
reusesToday(todayPrice) == todayPrice # <<>>

\* the history query answers, with rows or with an error (no data): the history
\* is shown; today's price, if there is one, becomes the current price, else
\* the fetch starts
HistoryQueryResolve(i, ok) ==
  /\ lookups[i].pc = "history"
  /\ LET l       == lookups[i]
         history == IF ok THEN historyOf(l.station, l.cutoff) ELSE <<>>
     IN /\ priceHistory' = history
        /\ IF reusesToday(l.todayPrice)
           THEN /\ lookups' = [lookups EXCEPT ![i] =
                                 [l EXCEPT !.pc = "done", !.history = history,
                                           !.storeError = l.storeError \/ ~ok,
                                           !.currentPrice = l.todayPrice]]
                /\ gasPrice' = l.todayPrice
                /\ UNCHANGED fetchCalls
           ELSE /\ lookups' = [lookups EXCEPT ![i] =
                                 [l EXCEPT !.pc = "fetch", !.history = history,
                                           !.storeError = l.storeError \/ ~ok,
                                           !.calls = l.calls + 1]]
                /\ fetchCalls' = fetchCalls + 1
                /\ UNCHANGED gasPrice
  /\ UNCHANGED <<modalVars, gas_prices, stationId, readingVars, configVars, tripVars, alertMessage, now, stubResults>>
  /\ GasStatsEffect

\* the endpoint answers with a price: the insert starts
FetchResolve(i, price) ==
  /\ lookups[i].pc = "fetch"
  /\ lookups' = [lookups EXCEPT ![i] =
                   [@ EXCEPT !.pc = "insert", !.fetched = <<price>>, !.recorded_at = now,
                             !.inserts = @ + 1]]
  /\ UNCHANGED <<modalVars, gas_prices, stationId, gasPrice, priceHistory, fetchCalls, readingVars,
                 configVars, tripVars, gasStats, alertMessage, now, stubResults>>

\* the endpoint answers with an error status or with no price: the latest row
\* of the history, if there is one, becomes the current price
FetchFail(i) ==
  /\ lookups[i].pc = "fetch"
  /\ LET l      == lookups[i]
         latest == IF Len(l.history) > 0 THEN <<l.history[Len(l.history)].price>> ELSE <<>>
     IN /\ lookups' = [lookups EXCEPT ![i] = [l EXCEPT !.pc = "done", !.currentPrice = latest]]
        /\ gasPrice' = IF latest # <<>> THEN latest ELSE gasPrice
  /\ UNCHANGED <<modalVars, gas_prices, stationId, priceHistory, fetchCalls, readingVars, configVars,
                 tripVars, alertMessage, now, stubResults>>
  /\ GasStatsEffect

\* fetch rejects (no connection), or the answer is not JSON: the catch block logs
FetchThrow(i) ==
  /\ lookups[i].pc = "fetch"
  /\ lookups' = [lookups EXCEPT ![i] = [@ EXCEPT !.pc = "done"]]
  /\ UNCHANGED <<modalVars, gas_prices, stationId, gasPrice, priceHistory, fetchCalls, readingVars,
                 configVars, tripVars, gasStats, alertMessage, now, stubResults>>

\* the insert answers; its result is not looked at. The fetched price is added
\* to the shown history and becomes the current price.
InsertResolve(i, ok) ==
  /\ lookups[i].pc = "insert"
  /\ LET l == lookups[i]
     IN /\ gas_prices' = IF ok
                         THEN Append(gas_prices, [station_id  |-> l.station,
                                                  price       |-> l.fetched[1],
                                                  recorded_at |-> l.recorded_at])
                         ELSE gas_prices
        /\ priceHistory' = Append(priceHistory, [price |-> l.fetched[1], recorded_at |-> now])
        /\ gasPrice' = l.fetched
        /\ lookups' = [lookups EXCEPT ![i] = [l EXCEPT !.pc = "done", !.currentPrice = l.fetched]]
  /\ UNCHANGED <<modalVars, stationId, fetchCalls, readingVars, configVars, tripVars, alertMessage, now, stubResults>>
  /\ GasStatsEffect

\* what the gas_prices table can hold when the dashboard is opened
StoredPrices ==
  { <<>>,
    <<[station_id |-> DefaultStationId, price |-> 360, recorded_at |-> DateOf(100)]>>,
    <<[station_id |-> DefaultStationId, price |-> 310, recorded_at |-> DateOf(5)]>> }

InitG ==
  /\ odometer_logs = EmptyBag
  /\ vehicles = vehicleTable(NULL, NULL)
  /\ trip_events = {}
  /\ gas_prices \in StoredPrices
  /\ Mounted(<<>>)

NextG ==
  \/ \E station \in {DefaultStationId, OtherStationId} : SetStationId(station)
  \/ \E i \in DOMAIN lookups, ok \in BOOLEAN : TodayQueryResolve(i, ok)
  \/ \E i \in DOMAIN lookups, ok \in BOOLEAN : HistoryQueryResolve(i, ok)
  \/ \E i \in DOMAIN lookups, price \in FetchedPrices : FetchResolve(i, price)
  \/ \E i \in DOMAIN lookups : FetchFail(i)
  \/ \E i \in DOMAIN lookups : FetchThrow(i)
  \/ \E i \in DOMAIN lookups, ok \in BOOLEAN : InsertResolve(i, ok)
  \/ Tick

SpecG == InitG /\ [][NextG]_vars

(***************************************************************************)
(* Properties of the price lookup.                                         *)
(***************************************************************************)
TodaysPricesOf(station, day) ==
  {gas_prices[k].price : k \in {j \in DOMAIN gas_prices :
      gas_prices[j].station_id = station /\ DayKey(gas_prices[j].recorded_at) = day}}

NoStoreError == \A i \in DOMAIN lookups : ~lookups[i].storeError

\* C13: as long as every query of every lookup was answered with rows, the
\* table holds at most one sample per station and calendar day.
C13_OneSamplePerStationDay ==
  NoStoreError =>
    \A j, k \in DOMAIN gas_prices :
      /\ gas_prices[j].station_id = gas_prices[k].station_id
      /\ DayKey(gas_prices[j].recorded_at) = DayKey(gas_prices[k].recorded_at)
      => j = k

LatestStoredPrices(station) ==
  {gas_prices[j].price : j \in {k \in DOMAIN gas_prices :
      /\ gas_prices[k].station_id = station
      /\ \A m \in DOMAIN gas_prices :
           gas_prices[m].station_id = station
             => gas_prices[m].recorded_at <= gas_prices[k].recorded_at}}

\* C14: a lookup without a sample of today calls the endpoint once; when the
\* endpoint answers with a price, that price becomes the current price and one
\* row with it is added to the table; when the fetch fails, the table stays as
\* it is, the lookup ends, and the current price becomes the price of the
\* station's most recent stored sample if it has one and stays as it is otherwise.
C14_FetchOnceThenFallBack ==
  [][\A i \in DOMAIN lookups :
       i \in DOMAIN lookups' /\ NoStoreError' =>
         /\ lookups[i].pc = "history" /\ lookups'[i].pc = "fetch"
              => lookups'[i].calls = 1
         /\ lookups[i].pc = "insert" /\ lookups'[i].pc = "done"
              => /\ gasPrice' = lookups[i].fetched
                 /\ gas_prices' = Append(gas_prices,
                      [station_id  |-> lookups[i].station,
                       price       |-> lookups[i].fetched[1],
                       recorded_at |-> lookups[i].recorded_at])
         /\ lookups[i].pc = "fetch" /\ lookups'[i].pc = "done"
              => /\ gas_prices' = gas_prices
                 /\ lookups'[i].calls = 1
                 /\ IF LatestStoredPrices(lookups[i].station) # {}
                    THEN gasPrice' # <<>> /\ gasPrice'[1] \in LatestStoredPrices(lookups[i].station)
                    ELSE gasPrice' = gasPrice]_vars

(***************************************************************************)
(* The fuel cost figures: readings, mpg and prices together.               *)
(***************************************************************************)
\* if (data?.mpg) setMpg(String(data.mpg))
mpgOf(data, current) ==
  IF data # NULL /\ data.mpg # <<>> /\ data.mpg[1] # 0 THEN data.mpg[1] ELSE current

\* loadVehicle: the query answers with the row; a truthy mpg is taken over
LoadVehicleResolve ==
  /\ \E v \in mpgRequest :
       /\ mpgRequest' = mpgRequest \ {v}
       /\ mpg' = mpgOf(vehicles[v], mpg)
  /\ UNCHANGED <<modalVars, vehicles, vehicleConfig, configRequest, readingVars, tripVars, gasVars,
                 alertMessage, now, stubResults>>
  /\ GasStatsEffect

\* loadVehicle: the query answers with an error (no row, several rows), or throws
LoadVehicleError ==
  /\ \E v \in mpgRequest : mpgRequest' = mpgRequest \ {v}
  /\ UNCHANGED <<modalVars, vehicles, vehicleConfig, configRequest, mpg, readingVars, tripVars,
                 gasVars, gasStats, alertMessage, now, stubResults>>

\* odometer_logs rows of the last 90 days: 900 miles within the last 30 days
FuelReadings ==
  SetToBag({[vehicle_id |-> EnvVehicleId, reading_date |-> 20, reading_miles |-> 400],
            [vehicle_id |-> EnvVehicleId, reading_date |-> 75, reading_miles |-> 1000],
            [vehicle_id |-> EnvVehicleId, reading_date |-> 98, reading_miles |-> 1900]})

\* gas_prices rows of the last 90 days
FuelPrices ==
  { <<>>,
    <<[station_id |-> DefaultStationId, price |-> 360, recorded_at |-> DateOf(100)]>>,
    <<[station_id |-> DefaultStationId, price |-> 340, recorded_at |-> DateOf(80)],
      [station_id |-> DefaultStationId, price |-> 360, recorded_at |-> DateOf(100)]>> }

InitE ==
  /\ odometer_logs = FuelReadings
  /\ vehicles \in {vehicleTable(row, NULL) : row \in {NULL} \cup VehicleRows}
  /\ trip_events = {}
  /\ gas_prices \in FuelPrices
  /\ Mounted(<<>>)

NextE ==
  \/ LoadReadingsResolve
  \/ LoadReadingsError
  \/ LoadVehicleResolve
  \/ LoadVehicleError
  \/ \E i \in DOMAIN lookups, ok \in BOOLEAN : TodayQueryResolve(i, ok)
  \/ \E i \in DOMAIN lookups, ok \in BOOLEAN : HistoryQueryResolve(i, ok)
  \/ \E i \in DOMAIN lookups, price \in FetchedPrices : FetchResolve(i, price)
  \/ \E i \in DOMAIN lookups : FetchFail(i)
  \/ \E i \in DOMAIN lookups : FetchThrow(i)
  \/ \E i \in DOMAIN lookups, ok \in BOOLEAN : InsertResolve(i, ok)
  \/ Tick

SpecE == InitE /\ [][NextE]_vars

(***************************************************************************)
(* Properties of the fuel cost figures.                                    *)
(***************************************************************************)
InWindow(rs, t, N) == {i \in DOMAIN rs : DateOf(rs[i].reading_date) >= t - N * TicksPerDay}

MilesInWindow(rs, t, N) ==
  LET I == InWindow(rs, t, N)
  IN IF Cardinality(I) < 2 THEN 0
     ELSE rs[SetMax(I)].reading_miles - rs[SetMin(I)].reading_miles

SamplesInWindow(history, t, N) ==
  {i \in DOMAIN history : history[i].recorded_at >= t - N * TicksPerDay}

RECURSIVE SumOfPrices(_, _)
SumOfPrices(history, I) ==
  IF I = {} THEN NumZero
  ELSE NumAdd(SumOfPrices(history, I \ {SetMax(I)}),
              NumDiv(NumInt(history[SetMax(I)].price), NumInt(100)))

MeanPrice(history, price, t, N) ==
  LET I == SamplesInWindow(history, t, N)
  IN IF I = {} THEN NumDiv(NumInt(price[1]), NumInt(100))
     ELSE NumDiv(SumOfPrices(history, I), NumInt(Cardinality(I)))

ExpectedSpent(rs, m, price, history, t, N) ==
  NumMul(NumDiv(NumInt(MilesInWindow(rs, t, N)), NumInt(m)), MeanPrice(history, price, t, N))

\* C11: whenever the readings, the mpg, the current price or the price history
\* change and the figures are computed, the spend of each window of N days
\* (7, 30, 90) is milesInWindow(N) / mpg * averagePrice(N): last minus first
\* odometer value of the readings within the window (0 with fewer than two),
\* over the mpg, times the mean of the price samples within the window (the
\* current price when there is none).
C11_SpendFormula ==
  [][<<gasPrice, priceHistory, readings, mpg>>' # <<gasPrice, priceHistory, readings, mpg>>
       /\ gasPrice' # <<>> /\ Len(readings') > 0 /\ mpg' > 0
       => /\ gasStats'.spentWeek    = ExpectedSpent(readings', mpg', gasPrice', priceHistory', now', 7)
          /\ gasStats'.spentMonth   = ExpectedSpent(readings', mpg', gasPrice', priceHistory', now', 30)
          /\ gasStats'.spentQuarter = ExpectedSpent(readings', mpg', gasPrice', priceHistory', now', 90)]_vars

\* C11 case: 900 miles within the last 30 days, mpg 30, one price sample of
\* 3.60: the 30-day spend is 108; no two readings within the last 7 days: the
\* 7-day spend is 0.
C11_Witness ==
  /\ ~loading
  /\ MilesInWindow(readings, now, 30) = 900
  /\ mpg = 30
  /\ gasPrice = <<360>>
  /\ Len(priceHistory) = 1
  /\ gasStats.spentMonth = NumInt(108)
  /\ gasStats.spentWeek = NumZero
  /\ gasStats.spentQuarter = NumInt(180)

(***************************************************************************)
(* The dashboard opened with a vehicle id kept in localStorage: the loads  *)
(* of the default vehicle and of the stored one overlap.                   *)
(***************************************************************************)
InitV ==
  /\ odometer_logs = StoredReadings
  /\ vehicles = vehicleTable(NULL, NULL)
  /\ trip_events = {}
  /\ gas_prices \in FuelPrices
  /\ Mounted(<<StoredVehicleId>>)

NextV ==
  \/ \E e \in Entries : AddReading(e, MaxRows)
  \/ LoadReadingsResolve
  \/ LoadReadingsError
  \/ \E i \in DOMAIN lookups, ok \in BOOLEAN : TodayQueryResolve(i, ok)
  \/ \E i \in DOMAIN lookups, ok \in BOOLEAN : HistoryQueryResolve(i, ok)
  \/ \E i \in DOMAIN lookups, price \in FetchedPrices : FetchResolve(i, price)
  \/ \E i \in DOMAIN lookups : FetchFail(i)
  \/ \E i \in DOMAIN lookups : FetchThrow(i)
  \/ \E i \in DOMAIN lookups, ok \in BOOLEAN : InsertResolve(i, ok)
  \/ Tick

SpecV == InitV /\ [][NextV]_vars

\* C18: whenever the readings state is empty, the mileage statistics and the
\* fuel spend and forecast figures are all zero; and every readings load that
\* ends, with rows, with an error or with an exception, ends the loading state.
C18_EmptyReadingsAllZero ==
  /\ [](Len(readings) = 0 =>
          /\ calculateStats.totalMiles = NumZero
          /\ calculateStats.allowanceToDate = NumZero
          /\ calculateStats.overUnder = NumZero
          /\ calculateStats.currentMiles = NumZero
          /\ gasStats.spentWeek = NumZero
          /\ gasStats.spentMonth = NumZero
          /\ gasStats.spentQuarter = NumZero
          /\ gasStats.forecastWeek = NumZero
          /\ gasStats.forecastMonth = NumZero
          /\ gasStats.forecastQuarter = NumZero)
  /\ [][BagCardinality(readingLoads') < BagCardinality(readingLoads) => ~loading']_vars

\* the requests in flight: readings, trips and vehicle loads, the vehicle-config
\* query, and the query, fetch or insert each unfinished price lookup waits for
InFlight ==
  BagCardinality(readingLoads) + BagCardinality(tripLoads)
    + Cardinality(mpgRequest) + Cardinality(configRequest)
    + Cardinality({i \in DOMAIN lookups : lookups[i].pc # "done"})

\* C17: at every moment at most one request issued by the dashboard is in flight.
C17_OneRequestInFlight == InFlight <= 1

(***************************************************************************)
(* The dashboard on the client that getSupabaseClient returns when the     *)
(* store URL or key is missing.                                            *)
(***************************************************************************)
NotConfigured == "Supabase not configured"
TypeError == "TypeError"
NoResult == "undefined"

\* the methods of the stub's builder: these return the builder,
StubBuilderMethods == {"select", "eq"}
\* and these a promise of an error result
StubAsyncMethods == {"maybeSingle", "insert", "update", "upsert", "delete"}

\* what awaiting a chain of calls on from(table) ends with: the promise's error
\* result, a TypeError where a method is called that the builder, or the
\* promise a method returned, does not have, and the builder itself (neither
\* data nor error) where the chain ends on a builder method
RECURSIVE stubChain(_, _, _)
stubChain(chain, i, onPromise) ==
  IF i > Len(chain) THEN (IF onPromise THEN NotConfigured ELSE NoResult)
  ELSE IF onPromise THEN TypeError
  ELSE IF chain[i] \in StubBuilderMethods THEN stubChain(chain, i + 1, FALSE)
  ELSE IF chain[i] \in StubAsyncMethods THEN stubChain(chain, i + 1, TRUE)
  ELSE TypeError

stubResult(chain) == stubChain(chain, 1, FALSE)

\* the chains of the dashboard's store operations
ReadingsQuery == <<"select", "eq", "order">>
TripsQuery == <<"select", "eq", "order">>
VehicleQuery == <<"select", "eq", "single">>
ConfigQuery == <<"select", "eq", "maybeSingle">>
TodayPriceQuery == <<"select", "eq", "gte", "lt", "order", "limit">>
InsertRow == <<"insert">>

ErrorAddingReading == "Error adding reading. Please try again."

\* loadReadings on the stub
StubLoadReadings ==
  /\ \E v \in BagToSet(readingLoads) : readingLoads' = readingLoads (-) SetToBag({v})
  /\ readings' = IF stubResult(ReadingsQuery) = NoResult THEN <<>> ELSE readings
  /\ loading' = FALSE
  /\ stubResults' = stubResults \cup {[op |-> "loadReadings", result |-> stubResult(ReadingsQuery)]}
  /\ UNCHANGED <<modalVars, odometer_logs, vehicleId, configVars, tripVars, gasVars, alertMessage, now>>
  /\ WeekPageEffect
  /\ GasStatsEffect

\* loadTripEvents on the stub
StubLoadTripEvents ==
  /\ \E v \in BagToSet(tripLoads) : tripLoads' = tripLoads (-) SetToBag({v})
  /\ tripEvents' = IF stubResult(TripsQuery) = NoResult THEN <<>> ELSE tripEvents
  /\ stubResults' = stubResults \cup {[op |-> "loadTripEvents", result |-> stubResult(TripsQuery)]}
  /\ UNCHANGED <<modalVars, trip_events, newTrip, readingVars, configVars, gasVars, gasStats,
                 alertMessage, now>>

\* loadVehicle on the stub
StubLoadVehicle ==
  /\ \E v \in mpgRequest : mpgRequest' = mpgRequest \ {v}
  /\ stubResults' = stubResults \cup {[op |-> "loadVehicle", result |-> stubResult(VehicleQuery)]}
  /\ UNCHANGED <<modalVars, vehicles, vehicleConfig, configRequest, mpg, readingVars, tripVars,
                 gasVars, gasStats, alertMessage, now>>

\* the vehicle-config effect on the stub
StubLoadVehicleConfig ==
  /\ \E v \in configRequest : configRequest' = configRequest \ {v}
  /\ vehicleConfig' = IF stubResult(ConfigQuery) = NoResult THEN configOf(NULL) ELSE vehicleConfig
  /\ stubResults' = stubResults \cup {[op |-> "loadVehicleConfig", result |-> stubResult(ConfigQuery)]}
  /\ UNCHANGED <<modalVars, vehicles, mpg, mpgRequest, readingVars, tripVars, gasVars, gasStats,
                 alertMessage, now>>

\* loadGasPrice on the stub: its first query
StubLoadGasPrice(i) ==
  /\ lookups[i].pc = "today"
  /\ stubResult(TodayPriceQuery) = TypeError
  /\ lookups' = [lookups EXCEPT ![i] = [@ EXCEPT !.pc = "done", !.storeError = TRUE]]
  /\ stubResults' = stubResults \cup {[op |-> "loadGasPrice", result |-> stubResult(TodayPriceQuery)]}
  /\ UNCHANGED <<modalVars, gas_prices, stationId, gasPrice, priceHistory, fetchCalls, readingVars,
                 configVars, tripVars, gasStats, alertMessage, now>>

\* handleOdometerButtonAdd on the stub: the insert's error is reported
StubAddReading(e) ==
  /\ ~loading
  /\ stubResult(InsertRow) = NotConfigured
  /\ alertMessage' = ErrorAddingReading
  /\ stubResults' = stubResults \cup {[op |-> "insertReading", result |-> stubResult(InsertRow)]}
  /\ UNCHANGED <<modalVars, readingVars, configVars, tripVars, gasVars, gasStats, now>>

\* handleAddTrip on the stub: the two validations, then the insert's error
StubAddTrip ==
  LET estimatedMiles == parseInt(newTrip.estimatedMiles)
  IN /\ IF newTrip.name = "" \/ newTrip.startDate = <<>> \/ newTrip.endDate = <<>>
             \/ newTrip.estimatedMiles = <<>>
        THEN alertMessage' = FillInAllFields /\ UNCHANGED stubResults
        ELSE IF estimatedMiles = <<>> \/ estimatedMiles[1] < 0
        THEN alertMessage' = EnterValidNumber /\ UNCHANGED stubResults
        ELSE /\ stubResult(InsertRow) = NotConfigured
             /\ alertMessage' = ErrorAddingTrip
             /\ stubResults' = stubResults \cup
                  {[op |-> "insertTrip", result |-> stubResult(InsertRow)]}
     /\ UNCHANGED <<modalVars, tripVars, readingVars, configVars, gasVars, gasStats, now>>

InitN ==
  /\ odometer_logs = EmptyBag
  /\ vehicles = vehicleTable(NULL, NULL)
  /\ trip_events = {}
  /\ gas_prices = <<>>
  /\ Mounted(<<>>)

NextN ==
  \/ StubLoadReadings
  \/ StubLoadTripEvents
  \/ StubLoadVehicle
  \/ StubLoadVehicleConfig
  \/ \E i \in DOMAIN lookups : StubLoadGasPrice(i)
  \/ \E station \in {DefaultStationId, OtherStationId} : SetStationId(station)
  \/ \E e \in Entries : StubAddReading(e)
  \/ \E form \in TripForms : SetNewTrip(form)
  \/ StubAddTrip
  \/ Tick

SpecN == InitN /\ [][NextN]_vars

\* C15: on the unconfigured client every store operation the dashboard has
\* issued ended in the "not configured" error result, and none has called the
\* fetch endpoint or changed a table.
C15_AllNotConfigured ==
  /\ \A r \in stubResults : r.result = NotConfigured
  /\ fetchCalls = 0
  /\ odometer_logs = EmptyBag /\ trip_events = {} /\ gas_prices = <<>>


(***************************************************************************)
(* Properties of the blend weights.                                        *)
(***************************************************************************)
\* the number of entries of the series dated within the last `days` days
EntriesWithin(days) ==
  Cardinality({i \in DOMAIN readings :
                 DateOf(readings[i].reading_date) >= subDays(now, days)})

Half == NumDiv(NumInt(1), NumInt(2))
ThreeTenths == NumDiv(NumInt(3), NumInt(10))
OneFifth == NumDiv(NumInt(1), NumInt(5))

ThirtyWeight == IF EntriesWithin(30) >= 2 THEN Half ELSE NumZero
NinetyWeight == IF EntriesWithin(90) >= 2 THEN ThreeTenths ELSE NumZero
WeightSum == NumAdd(NumAdd(ThirtyWeight, NinetyWeight), OneFifth)

\* C21: for a series of 2 or more entries the 30-day pace weighs 0.5 iff 2 or
\* more entries lie in the 30-day window, the 90-day pace 0.3 iff 2 or more
\* lie in the 90-day window, the lifetime pace 0.2 always; a window with
\* fewer than 2 entries has pace 0 and weight 0; and blendedPace is the
\* weighted sum of the three paces divided by the sum of the weights.
C21_BlendWeights ==
  Len(readings) >= 2 =>
    LET pace == calculateBlendedPace
    IN /\ pace # NULL
       /\ EntriesWithin(30) < 2 => pace.thirtyDayPace = NumZero
       /\ EntriesWithin(90) < 2 => pace.ninetyDayPace = NumZero
       /\ pace.blendedPace =
            NumDiv(NumAdd(NumAdd(NumMul(pace.thirtyDayPace, ThirtyWeight),
                                 NumMul(pace.ninetyDayPace, NinetyWeight)),
                          NumMul(pace.lifetimePace, OneFifth)),
                   WeightSum)

\* C21 case: two or more entries in the 90-day window, fewer than two in the
\* 30-day window, and a lifetime pace that differs from the 90-day pace.
C21_Witness ==
  /\ Len(readings) >= 3
  /\ EntriesWithin(30) < 2
  /\ EntriesWithin(90) >= 2
  /\ calculateBlendedPace.thirtyDayPace = NumZero
  /\ NumLt(NumZero, calculateBlendedPace.ninetyDayPace)
  /\ calculateBlendedPace.lifetimePace # calculateBlendedPace.ninetyDayPace

\* C30: the 30-day window lies within the 90-day window, so a weight for the
\* 30-day pace comes with a weight for the 90-day pace, the weights sum to
\* 0.2, 0.5 or 1.0, and a pace is returned for every series of 2 or more.
C30_WeightSum ==
  Len(readings) >= 2 =>
    LET total == NumAdd(NumAdd(weights.thirty, weights.ninety), weights.lifetime)
    IN /\ \A i \in DOMAIN thirtyDayReadings :
            \E j \in DOMAIN ninetyDayReadings : ninetyDayReadings[j] = thirtyDayReadings[i]
       /\ ~NumIsZero(weights.thirty) => ~NumIsZero(weights.ninety)
       /\ total \in {OneFifth, Half, NumInt(1)}
       /\ calculateBlendedPace # NULL

\* C30 case: both windows hold 2 or more entries and the weights sum to 1.
C30_Witness ==
  /\ Len(thirtyDayReadings) >= 2
  /\ Len(ninetyDayReadings) > Len(thirtyDayReadings)
  /\ NumAdd(NumAdd(weights.thirty, weights.ninety), weights.lifetime) = NumInt(1)

(***************************************************************************)
(* Properties of the weekly trend.                                         *)
(***************************************************************************)
\* day 0 is a Sunday
SundayOnOrBefore(day) == CHOOSE s \in (day - 6)..day : s % 7 = 0

\* the later entries of the consecutive pairs that gained miles in week w
GainsIn(rs, w) ==
  {i \in 2..Len(rs) : /\ rs[i].reading_miles > rs[i - 1].reading_miles
                      /\ SundayOnOrBefore(rs[i].reading_date) = w}

RECURSIVE SumGains(_, _)
SumGains(rs, I) ==
  IF I = {} THEN 0
  ELSE LET i == CHOOSE x \in I : TRUE
       IN (rs[i].reading_miles - rs[i - 1].reading_miles) + SumGains(rs, I \ {i})

WeeklyAllowance ==
  NumMul(NumDiv(NumInt(vehicleConfig.annualAllowance), NumDiv(NumInt(1461), NumInt(4))),
         NumInt(7))

\* C22: the weekly trend has one week for every Sunday-started week in which
\* some consecutive pair of aggregates gained miles, the week of the later
\* aggregate of the pair; its miles are the sum of those gains (pairs that
\* gained nothing or lost add nothing), so they are positive; the weeks are
\* in strictly increasing order, each with allowance dailyAllowance * 7; and
\* the trend is empty for fewer than 2 aggregates.
C22_WeeklyTrend ==
  LET trend == weeklyTrend
      weeks == {SundayOnOrBefore(readings[i].reading_date) : i \in 2..Len(readings)}
      busy  == {w \in weeks : GainsIn(readings, w) # {}}
  IN /\ Len(readings) < 2 => trend = <<>>
     /\ {trend[k].weekStart : k \in DOMAIN trend} = {DateOf(w) : w \in busy}
     /\ \A k \in DOMAIN trend :
          /\ k > 1 => trend[k - 1].weekStart < trend[k].weekStart
          /\ trend[k].miles > 0
          /\ trend[k].miles =
               SumGains(readings, GainsIn(readings, DayKey(trend[k].weekStart)))
          /\ trend[k].allowance = WeeklyAllowance

\* C22 case: a series in which one week gains miles from two pairs, another
\* pair loses miles, and the trend has two or more weeks.
C22_Witness ==
  /\ ~loading
  /\ Len(weeklyTrend) >= 2
  /\ \E w \in 0..100 : Cardinality(GainsIn(readings, w)) = 2
  /\ \E i \in 2..Len(readings) : readings[i].reading_miles < readings[i - 1].reading_miles

\* C23: the projection of a non-empty weekly trend has exactly 4 points, at
\* the week starts 7, 14, 21 and 28 days after the last week of the trend,
\* each with a value of 0 or more; for a trend of one week every value is
\* that week's miles; the projection of an empty trend is empty.
C23_ProjectionShape ==
  LET trend      == weeklyTrend
      projection == weeklyProjectionData
  IN /\ trend = <<>> => projection = <<>>
     /\ trend # <<>> =>
          /\ Len(projection) = 4
          /\ \A j \in 1..4 :
               /\ projection[j].weekStart =
                    trend[Len(trend)].weekStart + 7 * j * TicksPerDay
               /\ NumLe(NumZero, projection[j].projected)
               /\ Len(trend) = 1 => projection[j].projected = NumInt(trend[1].miles)

\* C23 case: falling weeks, 160 then 100 then 40 miles, whose line is below 0
\* in the first projected week already.
C23_Witness ==
  /\ ~loading
  /\ Len(weeklyTrend) = 3
  /\ [i \in 1..3 |-> weeklyTrend[i].miles] = <<160, 100, 40>>
  /\ weeklyProjectionData[1].projected = NumZero
  /\ weeklyProjectionData[4].projected = NumZero

(***************************************************************************)
(* prepareForecastData: the long-horizon projection.                       *)
(***************************************************************************)
Horizons == <<30, 90, 182, 365>>

forecastPoint(stats, blended, days) ==
  [days      |-> days,
   projected |-> NumAdd(stats.currentMiles, NumMul(blended.blendedPace, NumInt(days))),
   allowance |-> NumMul(stats.dailyAllowance, NumInt(stats.daysIntoLease + days))]

prepareForecastData ==
  IF calculateBlendedPace = NULL THEN <<>>
  ELSE [h \in DOMAIN Horizons |->
          forecastPoint(calculateStats, calculateBlendedPace, Horizons[h])]

\* days from the lease start to now, 0 before the lease starts
DaysIntoLease ==
  IF now >= DateOf(vehicleConfig.leaseStartDate)
  THEN (now - DateOf(vehicleConfig.leaseStartDate)) \div TicksPerDay
  ELSE 0

DailyAllowance == NumDiv(NumInt(vehicleConfig.annualAllowance), NumDiv(NumInt(1461), NumInt(4)))

\* the miles driven since the first aggregate of the series
MilesSinceFirst ==
  readings[Len(readings)].reading_miles - readings[1].reading_miles

\* C24: whenever a pace is available, each horizon of 30, 90, 182 and 365
\* days projects the miles driven since the first aggregate plus blendedPace
\* times the horizon, against the allowance dailyAllowance * (daysIntoLease +
\* horizon) with daysIntoLease = max(0, days from lease start to now), which
\* is never below dailyAllowance * horizon.
C24_LongHorizonProjection ==
  calculateBlendedPace # NULL =>
    /\ Len(prepareForecastData) = 4
    /\ \A h \in 1..4 :
         LET point == prepareForecastData[h]
             days  == <<30, 90, 182, 365>>[h]
         IN /\ point.projected =
                 NumAdd(NumInt(MilesSinceFirst),
                        NumMul(calculateBlendedPace.blendedPace, NumInt(days)))
            /\ point.allowance = NumMul(DailyAllowance, NumInt(DaysIntoLease + days))
            /\ NumLe(NumMul(DailyAllowance, NumInt(days)), point.allowance)

(***************************************************************************)
(* The dashboard opened with a stored vehicle id, both vehicles having     *)
(* rows: the requests issued for the default vehicle and those issued for  *)
(* the stored one answer in any order.                                     *)
(***************************************************************************)
\* vehicles tables with a row for the default vehicle and a different row, or
\* none, for the stored one
StoredVehicles ==
  { vehicleTable([lease_start |-> <<99>>, annual_allowance |-> <<7305>>, mpg |-> <<25>>],
                 [lease_start |-> <<73>>, annual_allowance |-> <<12000>>, mpg |-> <<>>]),
    vehicleTable([lease_start |-> <<99>>, annual_allowance |-> <<7305>>, mpg |-> <<25>>],
                 NULL) }

\* odometer_logs rows of both vehicles
BothReadings ==
  StoredReadings (+)
  SetToBag({[vehicle_id |-> StoredVehicleId, reading_date |-> 60,  reading_miles |-> 500],
            [vehicle_id |-> StoredVehicleId, reading_date |-> 100, reading_miles |-> 800]})

\* trip_events rows of both vehicles
BothTrips ==
  { [id |-> 1, vehicle_id |-> EnvVehicleId, name |-> "Cabin",
     start_date |-> 99, end_date |-> 102, est_miles |-> 400],
    [id |-> 2, vehicle_id |-> StoredVehicleId, name |-> "Lake",
     start_date |-> 101, end_date |-> 103, est_miles |-> 150] }

InitS ==
  /\ odometer_logs = BothReadings
  /\ vehicles \in StoredVehicles
  /\ trip_events = BothTrips
  /\ gas_prices = <<>>
  /\ Mounted(<<StoredVehicleId>>)

NextS ==
  \/ LoadReadingsResolve
  \/ LoadTripEventsResolve
  \/ LoadVehicleResolve
  \/ LoadVehicleConfigResolve
  \/ LoadVehicleConfigError

SpecS == InitS /\ [][NextS]_vars

\* C25: the answer to a vehicle-config query issued for a vehicle that is no
\* longer the selected one is discarded: the lease configuration changes only
\* to the configuration of the selected vehicle, and once no query is in
\* flight it is that configuration, or the default one if the query failed.
C25_StaleConfigDiscarded ==
  /\ [](configRequest = {} =>
          vehicleConfig \in {envConfig, configOf(vehicles[vehicleId])})
  /\ [][vehicleConfig' # vehicleConfig =>
          vehicleConfig' = configOf(vehicles[vehicleId])]_vars

\* C25 case: both queries have answered, the one for the default vehicle
\* included, and the configuration is the stored vehicle's, which differs
\* from the default vehicle's and from the defaults.
C25_Witness ==
  /\ vehicleId = StoredVehicleId
  /\ configRequest = {}
  /\ vehicleConfig = configOf(vehicles[StoredVehicleId])
  /\ vehicleConfig # configOf(vehicles[EnvVehicleId])
  /\ vehicleConfig # envConfig

\* C26: once every load issued at mount has answered, the readings, the trips
\* and the mpg the dashboard holds are those of the selected vehicle.
C26_CurrentVehicleData ==
  (readingLoads = EmptyBag /\ tripLoads = EmptyBag /\ mpgRequest = {}) =>
    /\ readings \in {aggregate(data) : data \in Orderings(logsOf(vehicleId))}
    /\ \A i \in DOMAIN tripEvents : tripEvents[i].vehicle_id = vehicleId
    /\ Len(tripEvents) = Cardinality({t \in trip_events : t.vehicle_id = vehicleId})
    /\ mpg = mpgOf(vehicles[vehicleId], 30)

(***************************************************************************)
(* Paging through the weekly trend while readings load and are added.      *)
(***************************************************************************)
MaxPagedRows == 18

\* odometer_logs rows, one a week: ten of the default vehicle (9 weeks of
\* trend) and six of the stored one (5 weeks)
PagedReadings ==
  SetToBag({[vehicle_id |-> EnvVehicleId, reading_date |-> 7 * k, reading_miles |-> 100 * k] :
              k \in 1..10})
  (+) SetToBag({[vehicle_id |-> StoredVehicleId, reading_date |-> 7 * k,
                 reading_miles |-> 50 * k] : k \in 1..6})

\* Readings the user may add: a high one on day 14, which the readings after
\* it fall below, and one of a further week.
PagingEntries ==
  { [reading_date |-> 14, reading_miles |-> 9000],
    [reading_date |-> 49, reading_miles |-> 9500] }

InitP ==
  /\ odometer_logs = PagedReadings
  /\ vehicles = vehicleTable(NULL, NULL)
  /\ trip_events = {}
  /\ gas_prices = <<>>
  /\ Mounted(<<StoredVehicleId>>)

NextP ==
  \/ \E e \in PagingEntries : AddReading(e, MaxPagedRows)
  \/ LoadReadingsResolve
  \/ LoadReadingsError
  \/ PreviousWeeks
  \/ NextWeeks

SpecP == InitP /\ [][NextP]_vars

\* the weeks shown on the pages p, p - 1, ..., 0, in that order
RECURSIVE PagesDownFrom(_)
PagesDownFrom(p) ==
  IF p < 0 THEN <<>>
  ELSE visibleWeeklyDataOf(weeklyTrend, p) \o PagesDownFrom(p - 1)

\* the last page: 0 for a trend of up to 4 weeks, 1 for up to 8, and so on
LastPage == IF Len(weeklyTrend) = 0 THEN 0 ELSE (Len(weeklyTrend) - 1) \div 4

\* C27: after every click on the paging buttons and every change of the
\* trend, the page is between 0 and the last page; page 0 shows the most
\* recent weeks; every page shows at most 4 weeks; and the pages from the last
\* one down to page 0 show the whole trend, each week once.
C27_WeekPaging ==
  LET weeks == Len(weeklyTrend)
  IN /\ weekPage \in 0..LastPage
     /\ visibleWeeklyDataOf(weeklyTrend, 0) =
          SubSeq(weeklyTrend, (IF weeks > 4 THEN weeks - 3 ELSE 1), weeks)
     /\ \A p \in 0..LastPage :
          /\ Len(visibleWeeklyDataOf(weeklyTrend, p)) <= 4
          /\ weeks > 0 => Len(visibleWeeklyDataOf(weeklyTrend, p)) >= 1
     /\ PagesDownFrom(LastPage) = weeklyTrend

\* C27 case: both loads have answered, the trend is the 5 weeks of the stored
\* vehicle, and the last page, page 1, shows its oldest week alone.
C27_Witness ==
  /\ readingLoads = EmptyBag
  /\ Len(weeklyTrend) = 5
  /\ weekPage = 1
  /\ visibleWeeklyData = <<weeklyTrend[1]>>

(***************************************************************************)
(* The total against the daily and the weekly figures.                     *)
(***************************************************************************)
RECURSIVE SumOver(_, _)
SumOver(f, n) == IF n = 0 THEN 0 ELSE SumOver(f, n - 1) + f[n]

\* C28: for every aggregated series the total miles driven, the last
\* aggregate's miles minus the first one's, equal the sum of the daily deltas
\* of the series and the sum of the miles of the weekly trend, and are not
\* negative.
C28_TotalIsSumOfDeltas ==
  Len(readings) >= 1 =>
    LET total == readings[Len(readings)].reading_miles - readings[1].reading_miles
    IN /\ calculateStats.totalMiles = NumInt(total)
       /\ total = SumOver([i \in DOMAIN readings |-> readings[i].daily_miles],
                          Len(readings))
       /\ total = SumOver([k \in DOMAIN weeklyTrend |-> weeklyTrend[k].miles],
                          Len(weeklyTrend))
       /\ total >= 0

(***************************************************************************)
(* The add-reading modal (OdometerButton) and handleOdometerButtonAdd.     *)
(***************************************************************************)
MaxModalRows == 2

PleaseEnterBoth == "Please enter both date and miles"

\* what a user can have in the modal's fields
ReadingForms ==
  [date : {<<>>, <<50>>}, miles : {<<>>, <<1500>>}, notes : {"", "Oil change"}]

\* the floating button's onClick; the dashboard renders the button only while
\* it is not loading
OpenModal ==
  /\ ~loading
  /\ isOpen' = TRUE
  /\ UNCHANGED <<isSubmitting, newReading, insertRequest, alertsShown, readingVars,
                 configVars, tripVars, gasVars, gasStats, alertMessage, now, stubResults>>

\* the onChange handlers of the three inputs
SetNewReading(form) ==
  /\ ~loading
  /\ isOpen
  /\ newReading' = form
  /\ UNCHANGED <<isOpen, isSubmitting, insertRequest, alertsShown, readingVars,
                 configVars, tripVars, gasVars, gasStats, alertMessage, now, stubResults>>

\* handleClose: the backdrop and the X close the modal and reset the form
HandleClose ==
  /\ ~loading
  /\ isOpen
  /\ isOpen' = FALSE
  /\ newReading' = emptyReadingForm(now)
  /\ UNCHANGED <<isSubmitting, insertRequest, alertsShown, readingVars,
                 configVars, tripVars, gasVars, gasStats, alertMessage, now, stubResults>>

\* handleSubmit up to its await: the submit button is disabled while
\* isSubmitting; a form without miles or date is refused with an alert
HandleSubmit ==
  /\ ~loading
  /\ isOpen
  /\ ~isSubmitting
  /\ IF newReading.miles = <<>> \/ newReading.date = <<>>
     THEN /\ alertsShown' = <<PleaseEnterBoth>>
          /\ alertMessage' = PleaseEnterBoth
          /\ UNCHANGED <<isSubmitting, insertRequest>>
     ELSE /\ isSubmitting' = TRUE
          /\ insertRequest' = <<newReading>>
          /\ alertsShown' = <<>>
          /\ UNCHANGED alertMessage
  /\ UNCHANGED <<isOpen, newReading, readingVars, configVars, tripVars, gasVars,
                 gasStats, now, stubResults>>

\* handleOdometerButtonAdd: the insert answers without an error, loadReadings
\* starts; handleSubmit resets the form, closes the modal and ends submitting
ReadingInsertResolve ==
  /\ insertRequest # <<>>
  /\ BagCardinality(odometer_logs) < MaxModalRows
  /\ odometer_logs' = odometer_logs (+)
       SetToBag({[vehicle_id    |-> vehicleId,
                  reading_date  |-> insertRequest[1].date[1],
                  reading_miles |-> insertRequest[1].miles[1]]})
  /\ loading' = TRUE
  /\ readingLoads' = readingLoads (+) SetToBag({vehicleId})
  /\ newReading' = emptyReadingForm(now)
  /\ isOpen' = FALSE
  /\ isSubmitting' = FALSE
  /\ insertRequest' = <<>>
  /\ UNCHANGED <<alertsShown, readings, vehicleId, weekPage, configVars, tripVars,
                 gasVars, gasStats, alertMessage, now, stubResults>>

\* handleOdometerButtonAdd: the insert answers with an error. The branch alerts
\* and throws inside the try, so the catch alerts again and rethrows;
\* handleSubmit logs the error and ends submitting.
ReadingInsertError ==
  /\ insertRequest # <<>>
  /\ alertsShown' = alertsShown \o <<ErrorAddingReading, ErrorAddingReading>>
  /\ alertMessage' = ErrorAddingReading
  /\ isSubmitting' = FALSE
  /\ insertRequest' = <<>>
  /\ UNCHANGED <<isOpen, newReading, readingVars, configVars, tripVars, gasVars,
                 gasStats, now, stubResults>>

\* handleOdometerButtonAdd: the insert throws; the catch alerts and rethrows
ReadingInsertThrow ==
  /\ insertRequest # <<>>
  /\ alertsShown' = alertsShown \o <<ErrorAddingReading>>
  /\ alertMessage' = ErrorAddingReading
  /\ isSubmitting' = FALSE
  /\ insertRequest' = <<>>
  /\ UNCHANGED <<isOpen, newReading, readingVars, configVars, tripVars, gasVars,
                 gasStats, now, stubResults>>

NextM ==
  \/ OpenModal
  \/ \E form \in ReadingForms : SetNewReading(form)
  \/ HandleClose
  \/ HandleSubmit
  \/ ReadingInsertResolve
  \/ ReadingInsertError
  \/ ReadingInsertThrow
  \/ LoadReadingsResolve
  \/ LoadReadingsError

SpecM == Init /\ [][NextM]_vars

\* C29: adding a reading through the modal: while the insert is pending
\* isSubmitting is true; when the insert succeeds the readings are reloaded,
\* the form is reset and the modal closes; when the insert returns an error or
\* throws, the modal and the entered values stay as they are, no reload starts
\* and the user gets exactly one error message; in every case isSubmitting
\* ends false.
C29_AddThroughModal ==
  /\ [](insertRequest # <<>> => isSubmitting)
  /\ [][insertRequest # <<>> /\ insertRequest' = <<>> =>
          /\ isSubmitting' = FALSE
          /\ IF odometer_logs' # odometer_logs
             THEN /\ readingLoads' = readingLoads (+) SetToBag({vehicleId})
                  /\ newReading' = emptyReadingForm(now)
                  /\ isOpen' = FALSE
             ELSE /\ isOpen' = isOpen
                  /\ newReading' = newReading
                  /\ readingLoads' = readingLoads
                  /\ Len(alertsShown') = 1]_vars

====
